---- MODULE Spec2Model ----
(***************************************************************************)
(* GreenChain: the staged loan pipeline (Field Scout -> Risk Analyst ->    *)
(* Loan Officer) of backend/src/agents/multi_agent_system.py, the fetch    *)
(* services it calls, the Lambda entry point of                            *)
(* backend/src/lambda_function.py, and the analysis functions of           *)
(* backend/src/services/advanced_satellite_service.py.                     *)
(*                                                                         *)
(* Numbers.  Python floats are modelled as exact decimal fixed-point       *)
(* integers; every definition names its unit:                              *)
(*   milli  = 1/1000   (ndvi_score, weather_risk_score, drought_risk_score,*)
(*                      the rounded entries of risk_scores)                *)
(*   e4     = 1/10000  (the unrounded composite_score)                     *)
(*   pct    = 1/100    (confidence after round(confidence, 2))             *)
(*   1/20              (the unrounded overall_score of the sustainability  *)
(*                      score, whose weights are multiples of 0.05)        *)
(* Binary rounding error of the float arithmetic (about 1e-16) is not      *)
(* modelled, except where a definition says so (ComponentScore,            *)
(* InvertedComponentScore, RoundOverall).  Python's Optional values are    *)
(* sequences: None is <<>> and a present value v is <<v>>.  Python dicts   *)
(* are records; dict.get(k, d) is Get(d, k, default).                      *)
(***************************************************************************)
EXTENDS Integers, Sequences, FiniteSets, TLC

VARIABLES
    pc,                   \* position of the request being processed
    state,                \* Optional AgentState threaded through the stages
    LANGGRAPH_AVAILABLE,  \* module flag set at import time
    calls,                \* functions invoked for the current request, in order
    fetched,              \* how each Field Scout fetch ended for the current run
    event,                \* Optional Lambda event being answered
    response,             \* Optional Lambda response
    requested,            \* inputs of the analysis calls of this session, in call order
    temporal_data,        \* results returned by get_multi_temporal_ndvi
    deforestation_data,   \* results returned by check_deforestation
    sustainability,       \* results returned by calculate_sustainability_score
    loan_risk             \* results returned by calculate_loan_risk_score

\* The variables of the loan pipeline and of the Lambda entry point.
pipelineVars == <<pc, state, LANGGRAPH_AVAILABLE, calls, fetched, event, response>>

\* The variables of the analysis functions of advanced_satellite_service.py.
advancedVars == <<requested, temporal_data, deforestation_data, sustainability, loan_risk>>

vars == <<pc, state, LANGGRAPH_AVAILABLE, calls, fetched, event, response,
          requested, temporal_data, deforestation_data, sustainability, loan_risk>>

---------------------------------------------------------------------------
(* Bounds of the model *)

\* NDVI means are sampled at multiples of 1/NdviGrid (plus fixed landmarks).
NdviGrid == 4

\* Frost days in the 90-day weather window are sampled in 0..MaxFrostWeeks*9.
MaxFrostWeeks == 1

\* The scoring inputs are sampled at multiples of 1/ScoreGrid.
ScoreGrid == 10

---------------------------------------------------------------------------
(* Generic helpers *)

None == <<>>

Some(v) == <<v>>

Get(d, k, default) == IF k \in DOMAIN d THEN d[k] ELSE default

Min(a, b) == IF a <= b THEN a ELSE b

Max(a, b) == IF a >= b THEN a ELSE b

\* Python round(): nearest multiple, ties to the even neighbour (a >= 0, b > 0).
RoundDiv(a, b) ==
    LET q == a \div b
        r == a % b
    IN  IF 2 * r < b THEN q
        ELSE IF 2 * r > b THEN q + 1
        ELSE IF q % 2 = 0 THEN q ELSE q + 1

\* `except Exception` catches every regular exception class, but not
\* BaseException-only classes.
ExceptionClasses ==
    {"RequestException", "OSError", "MemoryError", "RuntimeError",
     "ValueError", "JSONDecodeError", "TypeError", "AttributeError"}

\* Variant: a handler narrowed to `except requests.exceptions.RequestException`.
ExceptHandledOnlyRequestErrors(exc) == exc \in {"RequestException"}

ExceptHandled(exc) == exc \in ExceptionClasses

\* `except ValueError` (json.JSONDecodeError is a subclass of ValueError).
ValueErrorClasses == {"ValueError", "JSONDecodeError"}

---------------------------------------------------------------------------
(* services/satellite_service.py *)

SAT_MOCK_MODE == FALSE

NdviLandmarks == {-200, 450, 600, 720}

NdviValues == NdviLandmarks \cup {(k * 1000) \div NdviGrid : k \in 0..NdviGrid}

\* What the imagery collaborator does for one call of get_farm_ndvi.
\*   image    : a scene was found and its mean NDVI (milli) computed
\*   no_items : the catalog search found no scene
\*   nan      : the mean was NaN
\*   error    : an exception inside the try block
\*   raise    : an exception that leaves get_farm_ndvi
SatelliteWorld ==
    [kind : {"image"}, ndvi_mean : NdviValues, exc : {"-"}]
    \cup [kind : {"no_items", "nan"}, ndvi_mean : {0}, exc : {"-"}]
    \cup [kind : {"error"}, ndvi_mean : {0}, exc : {"OSError"}]
    \cup [kind : {"raise"}, ndvi_mean : {0}, exc : {"OSError", "MemoryError"}]

_get_fallback_data(reason) ==
    [ndvi_score |-> 450,
     status |-> "Simulated (Data Error)",
     error |-> reason,
     note |-> "Real satellite data failed to load; using simulation for hackathon demo."]

get_farm_ndvi_raises(w) == w.kind = "raise"

get_farm_ndvi(w) ==
    IF SAT_MOCK_MODE
    THEN [ndvi_score |-> 720, status |-> "Excellent (Mock Data)", cloud_cover |-> 5]
    ELSE CASE w.kind = "no_items" -> _get_fallback_data("No images found")
           [] w.kind = "nan" -> _get_fallback_data("Computed NaN value")
           [] w.kind = "error" -> _get_fallback_data(w.exc)
           [] OTHER ->
                [ndvi_score |-> w.ndvi_mean,
                 status |-> IF w.ndvi_mean > 500 THEN "Healthy"
                            ELSE IF w.ndvi_mean > 300 THEN "Moderate"
                            ELSE "Poor",
                 cloud_cover |-> 5]

---------------------------------------------------------------------------
(* services/weather_service.py *)

WEATHER_MOCK_MODE == FALSE

days_back == 90

\* What the weather collaborator does for one call of get_weather_analysis:
\* 90-day rainfall and evapotranspiration totals (mm), mean temperature
\* (degrees C) and the number of frost days.  total_et = -1 stands for an
\* empty evapotranspiration series.
WeatherWorld ==
    [kind : {"data"}, rainfall_total : {45, 270, 1000}, total_et : {-1, 0, 450},
     temp_avg : {8, 22}, frost_days : {9 * k : k \in 0..MaxFrostWeeks}, exc : {"-"}]
    \cup [kind : {"insufficient"}, rainfall_total : {0}, total_et : {0},
          temp_avg : {0}, frost_days : {0}, exc : {"-"}]
    \cup [kind : {"error"}, rainfall_total : {0}, total_et : {0},
          temp_avg : {0}, frost_days : {0}, exc : {"RequestException", "OSError"}]
    \cup [kind : {"raise"}, rainfall_total : {0}, total_et : {0},
          temp_avg : {0}, frost_days : {0}, exc : {"OSError", "MemoryError"}]

\* drought_risk in micro units (1e-6), before rounding.
DroughtRiskMicro(w) ==
    LET total_et == IF w.total_et >= 0 THEN w.total_et ELSE w.rainfall_total
    IN  IF total_et > 0
        THEN Max(0, Min(1000000, 1000000 - (1000000 * w.rainfall_total) \div total_et))
        ELSE 500000

\* _calculate_weather_risk, result in micro units (1e-6).
_calculate_weather_risk(rainfall_mm, days, avg_temp, frost_days, drought_micro) ==
    LET \* daily rainfall compared in mm * days to stay in integers
        rainfall_risk ==
            IF days <= 0 THEN 800
            ELSE IF rainfall_mm < 1 * days THEN 800
            ELSE IF rainfall_mm < 2 * days THEN 400
            ELSE IF rainfall_mm <= 6 * days THEN 100
            ELSE IF rainfall_mm <= 10 * days THEN 400
            ELSE 700
        temp_risk ==
            IF 15 <= avg_temp /\ avg_temp <= 30 THEN 100
            ELSE IF (10 <= avg_temp /\ avg_temp < 15) \/ (30 < avg_temp /\ avg_temp <= 35) THEN 300
            ELSE IF (5 <= avg_temp /\ avg_temp < 10) \/ (35 < avg_temp /\ avg_temp <= 40) THEN 600
            ELSE 900
        frost_risk_micro ==
            IF days > 0 THEN Min(1000000, (frost_days * 5 * 1000000) \div days) ELSE 0
    IN  rainfall_risk * 250 + temp_risk * 200 + (frost_risk_micro \div 5)
        + (drought_micro * 35) \div 100

_get_fallback_weather_data(reason) ==
    [drought_risk_score |-> 500,
     weather_risk_score |-> 500,
     weather_status |-> "Unknown (Data Error)",
     error |-> reason,
     note |-> "Weather data unavailable; using neutral risk score"]

get_weather_analysis_raises(w) == w.kind = "raise"

get_weather_analysis(w) ==
    IF WEATHER_MOCK_MODE
    THEN [drought_risk_score |-> 250, weather_risk_score |-> 220,
          weather_status |-> "Favorable", rainfall_total_mm |-> 185,
          note |-> "Mock data for testing"]
    ELSE CASE w.kind = "insufficient" -> _get_fallback_weather_data("Insufficient historical data")
           [] w.kind = "error" -> _get_fallback_weather_data(w.exc)
           [] OTHER ->
                LET drought_risk == DroughtRiskMicro(w)
                    weather_risk == _calculate_weather_risk(w.rainfall_total, days_back,
                                        w.temp_avg, w.frost_days, drought_risk)
                IN  [rainfall_total_mm |-> w.rainfall_total,
                     drought_risk_score |-> RoundDiv(drought_risk, 1000),
                     weather_risk_score |-> RoundDiv(weather_risk, 1000),
                     weather_status |-> IF weather_risk < 300000 THEN "Favorable"
                                        ELSE IF weather_risk < 500000 THEN "Moderate"
                                        ELSE IF weather_risk < 700000 THEN "Challenging"
                                        ELSE "High Risk"]

---------------------------------------------------------------------------
(* agents/multi_agent_system.py: the three stages *)

Decisions == {"APPROVED", "CONDITIONAL", "REJECTED"}

\* Field Scout's own substitute when get_farm_ndvi raises.
ScoutSatelliteFallback(exc) == [error |-> exc, ndvi_score |-> 0]

\* Field Scout's own substitute when get_weather_analysis raises.
ScoutWeatherFallback(exc) == [error |-> exc, weather_risk_score |-> 500]

\* An exception of a fetch leaves field_scout_agent iff no handler catches it.
field_scout_raises(sw, ww) ==
    \/ get_farm_ndvi_raises(sw) /\ ~ExceptHandled(sw.exc)
    \/ get_weather_analysis_raises(ww) /\ ~ExceptHandled(ww.exc)

\* The errors list built by the two try/except blocks.
ScoutErrors(sw, ww) ==
    (IF get_farm_ndvi_raises(sw) THEN <<"Satellite error">> ELSE <<>>)
    \o (IF get_weather_analysis_raises(ww) THEN <<"Weather error">> ELSE <<>>)

\* return {**state, "satellite_data": ..., "agent_trace": ["field_scout"],
\*         "errors": errors if errors else None}
FieldScoutReturn(s, satellite_data, weather_data, field_report, errors) ==
    [s EXCEPT !.satellite_data = Some(satellite_data),
              !.weather_data = Some(weather_data),
              !.field_report = Some(field_report),
              !.agent_trace = <<"field_scout">>,
              !.errors = IF errors # <<>> THEN Some(errors) ELSE None]

field_scout_agent(s, sw, ww) ==
    LET satellite_data == IF get_farm_ndvi_raises(sw)
                          THEN ScoutSatelliteFallback(sw.exc)
                          ELSE get_farm_ndvi(sw)
        weather_data == IF get_weather_analysis_raises(ww)
                        THEN ScoutWeatherFallback(ww.exc)
                        ELSE get_weather_analysis(ww)
        errors == ScoutErrors(sw, ww)
        field_report ==
            [ndvi_score |-> satellite_data.ndvi_score,
             status |-> Get(satellite_data, "status", "Unknown"),
             assessment |-> IF errors = <<>> THEN "Data collection successful"
                            ELSE "Partial data",
             error_count |-> Len(errors)]
    IN  FieldScoutReturn(s, satellite_data, weather_data, field_report, errors)

\* round(min(1.0, ndvi_score / 0.8) if ndvi_score > 0 else 0, 3), in milli.
VegetationScoreMilli(ndvi_score) ==
    IF ndvi_score > 0 THEN Min(1000, RoundDiv(5 * ndvi_score, 4)) ELSE 0

\* 0.40 * vegetation + 0.30 * climate + 0.30 * sustainability, in e4 units;
\* exact because 0.4 * (n / 0.8) = n / 2 and the risks are whole milli.
CompositeScoreE4(ndvi_score, weather_risk, drought_risk) ==
    (IF ndvi_score > 0 THEN Min(4000, 5 * ndvi_score) ELSE 0)
    + 3 * (1000 - weather_risk) + 3 * (1000 - drought_risk)

RiskLevel(composite_e4) ==
    IF composite_e4 > 6000 THEN "LOW"
    ELSE IF composite_e4 > 4000 THEN "MEDIUM"
    ELSE "HIGH"

\* Variant: the returned dict also resets "errors".
RiskAnalystReturnResettingErrors(s, risk_scores, risk_analysis, composite_score) ==
    [s EXCEPT !.risk_scores = Some(risk_scores),
              !.risk_analysis = Some(risk_analysis),
              !.composite_score = Some(composite_score),
              !.agent_trace = <<"risk_analyst">>,
              !.errors = None]

\* return {**state, "risk_scores": ..., "agent_trace": ["risk_analyst"]}
RiskAnalystReturn(s, risk_scores, risk_analysis, composite_score) ==
    [s EXCEPT !.risk_scores = Some(risk_scores),
              !.risk_analysis = Some(risk_analysis),
              !.composite_score = Some(composite_score),
              !.agent_trace = <<"risk_analyst">>]

risk_analyst_agent(s) ==
    LET satellite_data == s.satellite_data[1]
        weather_data == s.weather_data[1]
        ndvi_score == Get(satellite_data, "ndvi_score", 0)
        weather_risk == Get(weather_data, "weather_risk_score", 500)
        drought_risk == Get(weather_data, "drought_risk_score", 500)
        composite_score == CompositeScoreE4(ndvi_score, weather_risk, drought_risk)
        risk_scores ==
            [vegetation_score |-> VegetationScoreMilli(ndvi_score),
             climate_score |-> 1000 - weather_risk,
             sustainability_score |-> 1000 - drought_risk,
             composite_score |-> RoundDiv(composite_score, 10),
             risk_level |-> RiskLevel(composite_score)]
        risk_analysis ==
            [vegetation |-> IF ndvi_score < 400 THEN "Low vegetation health (NDVI < 0.4)"
                            ELSE "Vegetation healthy",
             weather |-> IF weather_risk > 400 THEN "Elevated weather risk"
                         ELSE "Weather conditions favorable",
             drought |-> IF drought_risk > 500 THEN "Drought concerns detected"
                         ELSE "Water availability adequate"]
    IN  RiskAnalystReturn(s, risk_scores, risk_analysis, composite_score)

\* Variant: strict comparisons, as in the risk_level label.
DecideStrict(composite_e4) ==
    IF composite_e4 > 6000 THEN "APPROVED"
    ELSE IF composite_e4 > 4000 THEN "CONDITIONAL"
    ELSE "REJECTED"

\* The decision branch of loan_officer_agent for a composite score in e4.
Decide(composite_e4) ==
    IF composite_e4 >= 6000 THEN "APPROVED"
    ELSE IF composite_e4 >= 4000 THEN "CONDITIONAL"
    ELSE "REJECTED"

\* Variant: the REJECTED branch scales by 0.3 instead of 0.2.
ConfidenceSteepRejected(composite_e4) ==
    IF composite_e4 >= 6000
        THEN RoundDiv(Min(95000, 75000 + 2 * composite_e4), 1000)
    ELSE IF composite_e4 >= 4000
        THEN RoundDiv(650000 + 15 * composite_e4, 10000)
    ELSE RoundDiv(70000 + 3 * (10000 - composite_e4), 1000)

\* round(confidence, 2) of the branch taken, in pct.
Confidence(composite_e4) ==
    IF composite_e4 >= 6000
        THEN RoundDiv(Min(95000, 75000 + 2 * composite_e4), 1000)
    ELSE IF composite_e4 >= 4000
        THEN RoundDiv(650000 + 15 * composite_e4, 10000)
    ELSE RoundDiv(70000 + 2 * (10000 - composite_e4), 1000)

Recommendations(decision) ==
    CASE decision = "APPROVED" -> <<>>
      [] decision = "CONDITIONAL" ->
            <<"Implement drip irrigation to reduce water dependency",
              "Consider crop diversification for risk mitigation",
              "Install weather monitoring equipment",
              "Submit quarterly vegetation health reports">>
      [] OTHER ->
            <<"Improve soil health through composting",
              "Implement water conservation practices",
              "Consider drought-resistant crop varieties",
              "Apply for agricultural extension support",
              "Reapply after 6 months with improved metrics">>

\* return {**state, "final_decision": ..., "agent_trace": ["loan_officer"]}
LoanOfficerReturn(s, decision, confidence, reasoning, recommendations, certificate_eligible) ==
    [s EXCEPT !.final_decision = Some(decision),
              !.confidence = Some(confidence),
              !.reasoning = Some(reasoning),
              !.recommendations = Some(recommendations),
              !.certificate_eligible = Some(certificate_eligible),
              !.timestamp = Some("now"),
              !.agent_trace = <<"loan_officer">>]

\* The reasoning text: one template per decision; only the APPROVED template
\* quotes the stated purpose.
Reasoning(decision, loan_purpose) ==
    [decision |-> decision,
     stated_purpose |-> IF decision = "APPROVED" THEN Some(loan_purpose) ELSE None]

\* Variant: an application without a stated purpose is never approved.
loan_officer_agent_requiring_purpose(s) ==
    LET composite_score == s.composite_score[1]
        decision == IF s.loan_purpose = "" /\ Decide(composite_score) = "APPROVED"
                    THEN "CONDITIONAL" ELSE Decide(composite_score)
    IN  LoanOfficerReturn(s, decision, Confidence(composite_score),
                          Reasoning(decision, s.loan_purpose),
                          Recommendations(decision), decision # "REJECTED")

loan_officer_agent(s) ==
    LET composite_score == s.composite_score[1]
        decision == Decide(composite_score)
    IN  LoanOfficerReturn(s, decision, Confidence(composite_score),
                          Reasoning(decision, s.loan_purpose),
                          Recommendations(decision), decision # "REJECTED")

---------------------------------------------------------------------------
(* agents/multi_agent_system.py: workflow and public API *)

\* The arguments of one call of run_multi_agent_analysis.
Request(latitude, longitude, loan_purpose, loan_amount) ==
    [latitude |-> latitude, longitude |-> longitude,
     loan_purpose |-> loan_purpose, loan_amount |-> loan_amount]

Requests ==
    {Request(45, 10, "drip irrigation upgrade", Some(1500)),
     Request(45, 10, "buy a tractor", Some(6000)),
     Request(45, 10, "drip irrigation upgrade", None),
     Request(91, 10, "drip irrigation upgrade", Some(1500)),
     Request(45, -181, "drip irrigation upgrade", Some(1500)),
     Request(45, 10, "", Some(1500)),
     Request(45, 10, "drip irrigation upgrade", Some(0))}

initial_state(latitude, longitude, loan_purpose, loan_amount) ==
    [latitude |-> latitude,
     longitude |-> longitude,
     loan_purpose |-> loan_purpose,
     loan_amount |-> loan_amount,
     satellite_data |-> None,
     weather_data |-> None,
     field_report |-> None,
     risk_scores |-> None,
     risk_analysis |-> None,
     composite_score |-> None,
     final_decision |-> None,
     confidence |-> None,
     reasoning |-> None,
     recommendations |-> None,
     certificate_eligible |-> None,
     agent_trace |-> <<>>,
     errors |-> None,
     timestamp |-> None]

\* The LangGraph edges added by create_agent_workflow.
EntryPoint == "field_scout"

\* Variant: the edge risk_analyst -> END, leaving the Loan Officer out.
EdgeSkippingLoanOfficer(node) ==
    CASE node = "field_scout" -> "risk_analyst"
      [] node = "risk_analyst" -> "END"
      [] node = "loan_officer" -> "END"

Edge(node) ==
    CASE node = "field_scout" -> "risk_analyst"
      [] node = "risk_analyst" -> "loan_officer"
      [] node = "loan_officer" -> "END"

\* The statement order of the sequential fallback.
SequentialNext(node) ==
    CASE node = "field_scout" -> "risk_analyst"
      [] node = "risk_analyst" -> "loan_officer"
      [] node = "loan_officer" -> "END"

NextNode(node) == IF LANGGRAPH_AVAILABLE THEN Edge(node) ELSE SequentialNext(node)

\* How the value returned by a stage becomes the next state.  LangGraph
\* writes every returned key to its channel; agent_trace is declared
\* Annotated[list, operator.add], so its channel is extended.  The fallback
\* path assigns the returned dict: state = agent(state).
ApplyReturn(s, ret) ==
    IF LANGGRAPH_AVAILABLE
    THEN [ret EXCEPT !.agent_trace = s.agent_trace \o ret.agent_trace]
    ELSE ret

NoFetch == [satellite |-> "-", weather |-> "-"]

\* How a fetch ended, as Field Scout sees it.
FetchOutcome(w) ==
    CASE w.kind = "raise" -> "raised"
      [] w.kind \in {"image", "data"} -> "real"
      [] OTHER -> "service_fallback"

\* Calls made by field_scout_agent: the weather fetch is reached unless the
\* satellite fetch raised past its handler.
ScoutCalls(sw) ==
    <<"field_scout_agent", "get_farm_ndvi">>
    \o (IF get_farm_ndvi_raises(sw) /\ ~ExceptHandled(sw.exc)
        THEN <<>> ELSE <<"get_weather_analysis">>)

RunMultiAgentAnalysis ==
    /\ pc = "Idle"
    /\ \E r \in Requests :
            state' = Some(initial_state(r.latitude, r.longitude, r.loan_purpose, r.loan_amount))
    /\ pc' = EntryPoint
    /\ calls' = <<"run_multi_agent_analysis">>
    /\ UNCHANGED <<LANGGRAPH_AVAILABLE, fetched, event, response>>
    /\ UNCHANGED advancedVars

FieldScout ==
    /\ pc = "field_scout"
    /\ \E sw \in SatelliteWorld, ww \in WeatherWorld :
        IF field_scout_raises(sw, ww)
        THEN /\ pc' = "Raised"
             /\ calls' = calls \o ScoutCalls(sw)
             /\ UNCHANGED <<state, fetched>>
        ELSE /\ state' = Some(ApplyReturn(state[1], field_scout_agent(state[1], sw, ww)))
             /\ fetched' = [satellite |-> FetchOutcome(sw), weather |-> FetchOutcome(ww)]
             /\ calls' = calls \o ScoutCalls(sw)
             /\ pc' = NextNode("field_scout")
    /\ UNCHANGED <<LANGGRAPH_AVAILABLE, event, response>>
    /\ UNCHANGED advancedVars

RiskAnalyst ==
    /\ pc = "risk_analyst"
    /\ state' = Some(ApplyReturn(state[1], risk_analyst_agent(state[1])))
    /\ calls' = calls \o <<"risk_analyst_agent">>
    /\ pc' = NextNode("risk_analyst")
    /\ UNCHANGED <<LANGGRAPH_AVAILABLE, fetched, event, response>>
    /\ UNCHANGED advancedVars

LoanOfficer ==
    /\ pc = "loan_officer"
    /\ state' = Some(ApplyReturn(state[1], loan_officer_agent(state[1])))
    /\ calls' = calls \o <<"loan_officer_agent">>
    /\ pc' = NextNode("loan_officer")
    /\ UNCHANGED <<LANGGRAPH_AVAILABLE, fetched, event, response>>
    /\ UNCHANGED advancedVars

\* The caller has the result; the request's state is discarded.
Return ==
    /\ pc \in {"END", "Raised"}
    /\ pc' = "Idle"
    /\ state' = None
    /\ calls' = <<>>
    /\ fetched' = NoFetch
    /\ UNCHANGED <<LANGGRAPH_AVAILABLE, event, response>>
    /\ UNCHANGED advancedVars

---------------------------------------------------------------------------
(* lambda_function.py and agents/credit_agent.py *)

\* A request parameter as found in the parsed body.
\*   missing : the key is absent        null : JSON null
\*   number  : a number (v, degrees)    nan  : JSON NaN
\*   text    : a non-numeric string     list : a JSON array
Param(kind, v) == [kind |-> kind, v |-> v]

LambdaLatitudes ==
    {Param(k, 0) : k \in {"missing", "null", "nan", "text", "list"}}
    \cup {Param("number", v) : v \in {-91, -90, 45, 90, 91}}

LambdaLongitudes ==
    {Param(k, 0) : k \in {"missing", "null", "nan", "text", "list"}}
    \cup {Param("number", v) : v \in {-181, -180, 10, 180, 181}}

\* body: absent (no "body" key), null, invalid_json (a string json.loads
\* rejects), array (parses to a list), object (parses to / is a dict).
LambdaEvents ==
    [httpMethod : {"POST", "OPTIONS"}, body : {"object"},
     latitude : LambdaLatitudes, longitude : LambdaLongitudes]
    \cup [httpMethod : {"POST", "OPTIONS"}, body : {"absent", "null", "invalid_json", "array"},
          latitude : {Param("missing", 0)}, longitude : {Param("missing", 0)}]

\* analyze_loan_risk: returns an analysis or raises.
LlmWorld == {"ok", "ValueError", "RuntimeError"}

\* Variant: only the upper bound of the range is checked.
InRangeUpperBoundOnly(p, lo, hi) == p.kind = "number" /\ p.v <= hi

\* The exception float(x) raises, "-" when it returns.
FloatRaises(p) ==
    CASE p.kind = "text" -> "ValueError"
      [] p.kind = "list" -> "TypeError"
      [] OTHER -> "-"

InRange(p, lo, hi) == p.kind = "number" /\ lo <= p.v /\ p.v <= hi

\* process_loan_request: raised is the exception leaving it ("-" if none),
\* result the kind of dict returned, calls the services it invoked.
process_loan_request(latitude, longitude, sw, llm) ==
    IF ~InRange(latitude, -90, 90)
        THEN [raised |-> "ValueError", result |-> "-", calls |-> <<>>]
    ELSE IF ~InRange(longitude, -180, 180)
        THEN [raised |-> "ValueError", result |-> "-", calls |-> <<>>]
    ELSE IF get_farm_ndvi_raises(sw)
        THEN IF ExceptHandled(sw.exc)
             THEN [raised |-> "-", result |-> "error", calls |-> <<"get_farm_ndvi">>]
             ELSE [raised |-> sw.exc, result |-> "-", calls |-> <<"get_farm_ndvi">>]
    ELSE IF llm # "ok"
        THEN IF ExceptHandled(llm)
             THEN [raised |-> "-", result |-> "error",
                   calls |-> <<"get_farm_ndvi", "analyze_loan_risk">>]
             ELSE [raised |-> llm, result |-> "-",
                   calls |-> <<"get_farm_ndvi", "analyze_loan_risk">>]
    ELSE [raised |-> "-", result |-> "response",
          calls |-> <<"get_farm_ndvi", "analyze_loan_risk">>]

\* The status code of the except clauses at the end of lambda_handler.
StatusOfException(exc) == IF exc \in ValueErrorClasses THEN 400 ELSE 500

lambda_handler(ev, sw, llm) ==
    IF ev.httpMethod = "OPTIONS"
        THEN [statusCode |-> 200, body |-> "", calls |-> <<>>]
    ELSE IF ev.body = "invalid_json"
        THEN [statusCode |-> StatusOfException("JSONDecodeError"),
              body |-> "Invalid input", calls |-> <<>>]
    ELSE IF ev.body \in {"null", "array"}
        THEN [statusCode |-> StatusOfException("AttributeError"),
              body |-> "Internal server error", calls |-> <<>>]
    ELSE IF ev.latitude.kind \in {"missing", "null"} \/ ev.longitude.kind \in {"missing", "null"}
        THEN [statusCode |-> 400, body |-> "Missing required parameters", calls |-> <<>>]
    ELSE IF FloatRaises(ev.latitude) # "-"
        THEN [statusCode |-> StatusOfException(FloatRaises(ev.latitude)),
              body |-> "float", calls |-> <<>>]
    ELSE IF FloatRaises(ev.longitude) # "-"
        THEN [statusCode |-> StatusOfException(FloatRaises(ev.longitude)),
              body |-> "float", calls |-> <<>>]
    ELSE LET r == process_loan_request(ev.latitude, ev.longitude, sw, llm)
         IN  IF r.raised # "-"
             THEN [statusCode |-> StatusOfException(r.raised),
                   body |-> r.raised, calls |-> r.calls]
             ELSE [statusCode |-> IF r.result = "error" THEN 500 ELSE 200,
                   body |-> r.result, calls |-> r.calls]

LambdaHandler ==
    /\ pc = "Idle"
    /\ \E ev \in LambdaEvents, sw \in SatelliteWorld, llm \in LlmWorld :
        LET out == lambda_handler(ev, sw, llm)
        IN  /\ event' = Some(ev)
            /\ response' = Some([statusCode |-> out.statusCode, body |-> out.body])
            /\ calls' = <<"lambda_handler">> \o out.calls
    /\ pc' = "LambdaReturned"
    /\ UNCHANGED <<state, LANGGRAPH_AVAILABLE, fetched>>
    /\ UNCHANGED advancedVars

\* The response has been delivered.
LambdaReturn ==
    /\ pc = "LambdaReturned"
    /\ pc' = "Idle"
    /\ event' = None
    /\ response' = None
    /\ calls' = <<>>
    /\ UNCHANGED <<state, LANGGRAPH_AVAILABLE, fetched>>
    /\ UNCHANGED advancedVars

---------------------------------------------------------------------------
(* Specification *)

Init ==
    /\ pc = "Idle"
    /\ state = None
    /\ LANGGRAPH_AVAILABLE \in BOOLEAN
    /\ calls = <<>>
    /\ fetched = NoFetch
    /\ event = None
    /\ response = None
    /\ requested = <<>>
    /\ temporal_data = <<>>
    /\ deforestation_data = <<>>
    /\ sustainability = <<>>
    /\ loan_risk = <<>>

Next ==
    \/ RunMultiAgentAnalysis
    \/ FieldScout
    \/ RiskAnalyst
    \/ LoanOfficer
    \/ Return
    \/ LambdaHandler
    \/ LambdaReturn

Spec == Init /\ [][Next]_vars

\* A started run is driven to its end: each stage is an ordinary function
\* call made by run_multi_agent_analysis (or by the compiled graph).
FairSpec ==
    Spec /\ WF_vars(FieldScout) /\ WF_vars(RiskAnalyst) /\ WF_vars(LoanOfficer)

\* The scoring stages on their own: the state after a Field Scout stage
\* whose two fetches delivered real data, with the three metrics the Risk
\* Analyst reads drawn from a grid over [0, 1] (milli).
ScoreValues == {(k * 1000) \div ScoreGrid : k \in 0..ScoreGrid}

ScoutedState(ndvi_score, weather_risk, drought_risk) ==
    LET s0 == initial_state(45, 10, "drip irrigation upgrade", Some(1500))
        satellite_data == get_farm_ndvi([kind |-> "image", ndvi_mean |-> ndvi_score, exc |-> "-"])
        weather_data == [rainfall_total_mm |-> 270,
                         drought_risk_score |-> drought_risk,
                         weather_risk_score |-> weather_risk,
                         weather_status |-> "Moderate"]
        field_report == [ndvi_score |-> ndvi_score, status |-> satellite_data.status,
                         assessment |-> "Data collection successful", error_count |-> 0]
    IN  ApplyReturn(s0, FieldScoutReturn(s0, satellite_data, weather_data, field_report, <<>>))

ScoreInit ==
    /\ pc = "risk_analyst"
    /\ LANGGRAPH_AVAILABLE \in BOOLEAN
    /\ \E ndvi_score \in ScoreValues \cup {-200}, weather_risk \in ScoreValues,
          drought_risk \in ScoreValues :
            state = Some(ScoutedState(ndvi_score, weather_risk, drought_risk))
    /\ calls = <<"run_multi_agent_analysis", "field_scout_agent", "get_farm_ndvi",
                 "get_weather_analysis">>
    /\ fetched = [satellite |-> "real", weather |-> "real"]
    /\ event = None
    /\ response = None
    /\ requested = <<>>
    /\ temporal_data = <<>>
    /\ deforestation_data = <<>>
    /\ sustainability = <<>>
    /\ loan_risk = <<>>

ScoreNext == RiskAnalyst \/ LoanOfficer

ScoreSpec == ScoreInit /\ [][ScoreNext]_vars

TypeOK ==
    /\ pc \in {"Idle", "field_scout", "risk_analyst", "loan_officer", "END",
               "Raised", "LambdaReturned"}
    /\ LANGGRAPH_AVAILABLE \in BOOLEAN
    /\ (pc \in {"field_scout", "risk_analyst", "loan_officer", "END"}) <=> (state # None)
    /\ (pc = "LambdaReturned") <=> (response # None)

---------------------------------------------------------------------------
(* Properties of the pipeline *)

\* The AgentState of the run in progress.
S == state[1]

StageNames == {"field_scout_agent", "risk_analyst_agent", "loan_officer_agent"}

IsStage(c) == c \in StageNames

\* The stages invoked so far for the current request, in order.
StageCalls == SelectSeq(calls, IsStage)

Decided == S.final_decision # None /\ S.final_decision[1] \in Decisions

\* C1: whatever combination of the satellite and the weather fetch raises,
\* a run never stops inside Field Scout (no exception leaves the stage),
\* goes on through Risk Analyst and Loan Officer, and ends with
\* final_decision set to APPROVED, CONDITIONAL or REJECTED.
C1_RunAlwaysDecides ==
    /\ [](pc # "Raised")
    /\ [](pc = "END" =>
            /\ Decided
            /\ \E i \in 1..Len(calls) : calls[i] = "risk_analyst_agent"
            /\ \E i \in 1..Len(calls) : calls[i] = "loan_officer_agent")
    /\ ((pc = "field_scout") ~> (pc = "END"))

C1_Witness ==
    /\ pc = "END"
    /\ fetched.satellite = "raised"
    /\ fetched.weather = "raised"
    /\ Decided

\* C2: the stages run exactly once each in the order field_scout,
\* risk_analyst, loan_officer on both paths, and a stage is entered (and the
\* result returned) only after the fields of the stages before it are written.
C2_StagesOnceInOrder ==
    /\ pc = "field_scout" => StageCalls = <<>>
    /\ pc = "risk_analyst" =>
            /\ StageCalls = <<"field_scout_agent">>
            /\ S.satellite_data # None /\ S.weather_data # None
    /\ pc = "loan_officer" =>
            /\ StageCalls = <<"field_scout_agent", "risk_analyst_agent">>
            /\ S.satellite_data # None /\ S.weather_data # None
            /\ S.composite_score # None /\ S.risk_scores # None
    /\ pc = "END" =>
            /\ StageCalls = <<"field_scout_agent", "risk_analyst_agent", "loan_officer_agent">>
            /\ S.satellite_data # None /\ S.weather_data # None
            /\ S.composite_score # None /\ S.risk_scores # None
            /\ S.final_decision # None

C2_Witness ==
    /\ pc = "END"
    /\ LANGGRAPH_AVAILABLE
    /\ StageCalls = <<"field_scout_agent", "risk_analyst_agent", "loan_officer_agent">>
    /\ S.final_decision # None

CallerAndScoutFields ==
    {"latitude", "longitude", "loan_purpose", "loan_amount",
     "satellite_data", "weather_data", "field_report", "errors"}

AnalystFields == {"risk_scores", "risk_analysis", "composite_score"}

\* The step leaves the given fields of the AgentState as they were.
Keeps(fields) == \A f \in fields : state'[1][f] = state[1][f]

\* C3: the Risk Analyst step changes no caller-supplied or Field Scout
\* field, and the Loan Officer step changes none of those nor any Risk
\* Analyst field.
C3_NoOverwrite ==
    [][/\ (pc = "risk_analyst" /\ pc' # pc) => Keeps(CallerAndScoutFields)
       /\ (pc = "loan_officer" /\ pc' # pc) =>
                Keeps(CallerAndScoutFields \cup AnalystFields)]_vars

C3_Witness ==
    /\ pc = "END"
    /\ S.errors # None
    /\ S.satellite_data # None
    /\ S.risk_scores # None
    /\ S.final_decision # None

\* C4: when a run finishes, agent_trace is [field_scout, risk_analyst,
\* loan_officer] on the LangGraph path and on the sequential path alike.
C4_TraceListsAllStages ==
    pc = "END" => S.agent_trace = <<"field_scout", "risk_analyst", "loan_officer">>

HasNote(note) ==
    S.errors # None /\ \E i \in 1..Len(S.errors[1]) : S.errors[1][i] = note

\* C5: in a finished run, every fetch that did not deliver real data
\* (it raised, or the service returned its own fallback record) has a note
\* in errors, and errors is None only when both fetches delivered real data.
C5_EveryDegradedFetchNoted ==
    pc = "END" =>
        /\ fetched.satellite # "real" => HasNote("Satellite error")
        /\ fetched.weather # "real" => HasNote("Weather error")
        /\ S.errors = None => (fetched.satellite = "real" /\ fetched.weather = "real")

Malformed(s) ==
    \/ s.loan_amount # None /\ s.loan_amount[1] <= 0
    \/ s.latitude < -90 \/ s.latitude > 90
    \/ s.longitude < -180 \/ s.longitude > 180
    \/ s.loan_purpose = ""

\* C6: for a request with amount <= 0, out-of-range coordinates or an empty
\* purpose no pipeline stage runs and no risk score or decision is produced.
C6_MalformedNeverProcessed ==
    (state # None /\ Malformed(S)) =>
        /\ StageCalls = <<>>
        /\ S.risk_scores = None
        /\ S.final_decision = None

Lacks(p) == p.kind \in {"missing", "null"}

OutOfRange(p, bound) ==
    \/ p.kind = "nan"
    \/ p.kind = "number" /\ (p.v < -bound \/ p.v > bound)

C8_DecisionBands ==
    pc = "END" =>
        LET c == S.composite_score[1]
            d == S.final_decision[1]
        IN  /\ d \in Decisions
            /\ d = "APPROVED" <=> c >= 6000
            /\ d = "CONDITIONAL" <=> (4000 <= c /\ c < 6000)
            /\ d = "REJECTED" <=> c < 4000

C8_Witness ==
    /\ pc = "END"
    /\ S.composite_score = Some(6000)
    /\ S.final_decision = Some("APPROVED")

\* C9: every composite score the Risk Analyst produces lies in [0, 1] and
\* the confidence the Loan Officer emits for it lies in [0.60, 0.95].
C9_ConfidenceInRange ==
    pc = "END" =>
        /\ 0 <= S.composite_score[1] /\ S.composite_score[1] <= 10000
        /\ 60 <= S.confidence[1] /\ S.confidence[1] <= 95

C9_Witness ==
    /\ pc = "END"
    /\ S.composite_score = Some(0)
    /\ S.final_decision = Some("REJECTED")
    /\ S.confidence = Some(90)

\* C10: when the satellite fetch raises in Field Scout, the substituted
\* record carries a mid-range NDVI and the Risk Analyst's vegetation score
\* for it is not the bare-ground score 0.
C10_OutageScoredNeutral ==
    (pc \in {"loan_officer", "END"} /\ fetched.satellite = "raised") =>
        /\ 200 <= S.satellite_data[1].ndvi_score
        /\ S.satellite_data[1].ndvi_score <= 800
        /\ S.risk_scores[1].vegetation_score > 0

---------------------------------------------------------------------------
(* services/advanced_satellite_service.py: check_deforestation *)

\* Module flags of advanced_satellite_service.py.  SATELLITE_LIBS_AVAILABLE
\* is decided by the import at load time and is part of each world below.
ADV_MOCK_MODE == FALSE

\* Historical NDVI samples (milli) around the rule boundaries 0.4 and 0.5.
HistoricalValues == {300, 400, 410, 450, 500, 510, 650, 800}

\* Changes recent - historical (milli) around the boundaries -0.10, -0.15
\* and -0.20, a loss large enough to saturate a score, and a gain.
ChangeValues == {-600, -500, -300, -210, -201, -200, -170, -151, -150, -110, -101, -100, -50, 0, 100}

\* What the catalog delivers to one check_deforestation call: the libraries
\* are missing, the catalog access raises, or _get_best_ndvi returns each of
\* the two period samples (None: no item, a NaN mean, or an error inside).
DeforestationWorld ==
    {[fn |-> "check_deforestation", kind |-> k, historical |-> None, recent |-> None] :
        k \in {"no_libs", "error"}}
    \cup {[fn |-> "check_deforestation", kind |-> "samples", historical |-> h, recent |-> r] :
            h \in {None, Some(650)}, r \in {None, Some(350)}}
    \cup {[fn |-> "check_deforestation", kind |-> "samples",
           historical |-> Some(h), recent |-> Some(h + c)] :
            h \in HistoricalValues, c \in ChangeValues}

\* The values random.* can hand to _get_mock_deforestation_data: the coin
\* random.random() < 0.15, the random.choice of the level, and the end
\* points of each random.uniform range (milli).
MockDeforestationDraws ==
    {[has_deforestation |-> TRUE, risk_level |-> l, deforestation_score |-> sc,
      ndvi_historical |-> h, ndvi_recent |-> r, change_detected |-> c] :
        l \in {"medium", "high"}, sc \in {400, 800}, h \in {600, 800},
        r \in {200, 400}, c \in {-400, -200}}
    \cup {[has_deforestation |-> FALSE, risk_level |-> "none", deforestation_score |-> sc,
           ndvi_historical |-> h, ndvi_recent |-> r, change_detected |-> c] :
            sc \in {0, 150}, h \in {400, 600}, r \in {450, 650}, c \in {-50, 100}}

_get_mock_deforestation_data(draw) ==
    [deforestation_detected |-> draw.has_deforestation,
     risk_level |-> draw.risk_level,
     deforestation_score |-> draw.deforestation_score,
     ndvi_historical |-> draw.ndvi_historical,
     ndvi_recent |-> draw.ndvi_recent,
     change_detected |-> draw.change_detected,
     years_analyzed |-> 2,
     is_mock |-> TRUE]

Abs(x) == IF x < 0 THEN -x ELSE x

\* A variant of DeforestationRiskLevel whose first two rules assign each
\* other's level.
DeforestationRiskLevelSwapped(ndvi_historical, change) ==
    IF ndvi_historical > 500 /\ change < -200 THEN "medium"
    ELSE IF ndvi_historical > 400 /\ change < -150 THEN "high"
    ELSE IF change < -100 THEN "low"
    ELSE "none"

\* The if/elif chain of check_deforestation on two samples (milli), first
\* match winning: the branch taken, named by the risk_level it assigns.
DeforestationRiskLevel(ndvi_historical, change) ==
    IF ndvi_historical > 500 /\ change < -200 THEN "high"
    ELSE IF ndvi_historical > 400 /\ change < -150 THEN "medium"
    ELSE IF change < -100 THEN "low"
    ELSE "none"

\* A variant of DeforestationScore that scores the medium branch with the
\* factor of the high branch.
DeforestationScoreDoubledMedium(risk_level, change) ==
    IF risk_level = "high" THEN Min(1000, Abs(change) * 2)
    ELSE IF risk_level = "medium" THEN Min(700, Abs(change) * 2)
    ELSE IF risk_level = "low" THEN Min(400, Abs(change))
    ELSE 0

\* deforestation_score of the branch, after round(deforestation_score, 3).
DeforestationScore(risk_level, change) ==
    IF risk_level = "high" THEN Min(1000, Abs(change) * 2)
    ELSE IF risk_level = "medium" THEN RoundDiv(Min(1400, Abs(change) * 3), 2)
    ELSE IF risk_level = "low" THEN Min(400, Abs(change))
    ELSE 0

\* A variant of DeforestationDetected that flags every loss branch.
DeforestationDetectedOnAnyLoss(risk_level) == risk_level # "none"

\* deforestation_detected starts False and only the first branch sets it.
DeforestationDetected(risk_level) == risk_level = "high"

ClassifyDeforestation(ndvi_historical, change) ==
    LET risk_level == DeforestationRiskLevel(ndvi_historical, change)
    IN  [deforestation_detected |-> DeforestationDetected(risk_level),
         risk_level |-> risk_level,
         deforestation_score |-> DeforestationScore(risk_level, change)]

\* The samples are missing: line 243 of check_deforestation.
SamplesMissing(w) == w.historical = None \/ w.recent = None

\* check_deforestation(lat, lon, years_back = 2) in world w with the random
\* draw the fallback generator would make.
check_deforestation(w, draw) ==
    IF ADV_MOCK_MODE \/ w.kind = "no_libs" THEN _get_mock_deforestation_data(draw)
    ELSE IF w.kind = "error" THEN _get_mock_deforestation_data(draw)
    ELSE IF SamplesMissing(w) THEN _get_mock_deforestation_data(draw)
    ELSE LET ndvi_historical == w.historical[1]
             ndvi_recent == w.recent[1]
             change == ndvi_recent - ndvi_historical
             c == ClassifyDeforestation(ndvi_historical, change)
         IN  [deforestation_detected |-> c.deforestation_detected,
              risk_level |-> c.risk_level,
              deforestation_score |-> c.deforestation_score,
              ndvi_historical |-> ndvi_historical,
              ndvi_recent |-> ndvi_recent,
              change_detected |-> change,
              years_analyzed |-> 2]

\* The number of analysis calls made so far, and the input of the next one.
Made ==
    Len(temporal_data) + Len(deforestation_data) + Len(sustainability) + Len(loan_risk)

HasNextInput(fn) == Made < Len(requested) /\ requested[Made + 1].fn = fn

NextInput == requested[Made + 1]

CheckDeforestation ==
    /\ HasNextInput("check_deforestation")
    /\ \E draw \in MockDeforestationDraws :
            deforestation_data' = Append(deforestation_data, check_deforestation(NextInput, draw))
    /\ UNCHANGED <<requested, temporal_data, sustainability, loan_risk>>
    /\ UNCHANGED pipelineVars

---------------------------------------------------------------------------
(* services/advanced_satellite_service.py: get_multi_temporal_ndvi *)

\* The look-back windows months_back that are analysed run up to MaxMonths.
MaxMonths == 4

\* Monthly NDVI means after round(ndvi_mean, 3) (milli): changes of 0.04,
\* 0.05 and 0.06 in both directions, and changes beyond +-0.3.
TemporalValues == {400, 440, 450, 460, 800}

\* The series of the scenario of the trend analysis.
ScenarioSeries == <<Some(400), Some(420), Some(450), Some(500), Some(550), Some(600)>>

\* Every series of n monthly outcomes, oldest month first: a usable sample,
\* or None for a month with no clear image, a NaN mean or an error.
MonthlyOutcomes(n) == [1..n -> {None} \cup {Some(v) : v \in TemporalValues}]

\* What the catalog delivers to one get_multi_temporal_ndvi call.
TemporalWorld ==
    {[fn |-> "get_multi_temporal_ndvi", kind |-> k, months_back |-> n, samples |-> <<>>] :
        k \in {"no_libs", "error"}, n \in 1..MaxMonths}
    \cup UNION {{[fn |-> "get_multi_temporal_ndvi", kind |-> "months", months_back |-> n,
                  samples |-> o] : o \in MonthlyOutcomes(n)} : n \in 1..MaxMonths}
    \cup {[fn |-> "get_multi_temporal_ndvi", kind |-> "months", months_back |-> 6,
           samples |-> ScenarioSeries]}

\* monthly_data: one entry per month that delivered a usable sample.
CollectMonthlyData(samples) ==
    LET usable == SelectSeq([i \in 1..Len(samples) |-> i], LAMBDA i : samples[i] # None)
    IN  [j \in 1..Len(usable) |-> [month |-> usable[j], ndvi |-> samples[usable[j]][1]]]

\* The values random.* can hand to the generator of _get_mock_temporal_data
\* for a window of the given length: the end points of uniform(0.4, 0.7),
\* the random.choice of the slope, and the end points of the monthly
\* uniform(-0.05, 0.05) (milli).
MockTemporalDraws(months) ==
    {[base_ndvi |-> b, trend |-> t, noise |-> e] :
        b \in {400, 700}, t \in {-20, 0, 10, 20, 30}, e \in [1..months -> {-50, 50}]}

\* The draw of a call that does not run the generator.
NoDraw == [base_ndvi |-> 0, trend |-> 0, noise |-> <<>>]

\* The generated series: base + slope * position + noise, clamped to
\* [0.1, 0.9].
GenerateMonthlyData(months, draw) ==
    [j \in 1..months |->
        [month |-> j,
         ndvi |-> Max(100, Min(900, draw.base_ndvi + draw.trend * (j - 1) + draw.noise[j]))]]

NdviSeries(monthly_data) == [j \in 1..Len(monthly_data) |-> monthly_data[j].ndvi]

RECURSIVE SumSeq(_)
SumSeq(q) == IF q = <<>> THEN 0 ELSE Head(q) + SumSeq(Tail(q))

SumSquares(q) == SumSeq([j \in 1..Len(q) |-> q[j] * q[j]])

\* round(3 * np.std(values), 3) in milli, for a non-empty series: the
\* integer nearest to 3 * sqrt(n * sum(x^2) - sum(x)^2) / n.
ThreeStdMilli(values) ==
    LET n == Len(values)
        Q == n * SumSquares(values) - SumSeq(values) * SumSeq(values)
    IN  CHOOSE k \in 0..1500 :
            /\ 36 * Q < (2 * k + 1) * (2 * k + 1) * n * n
            /\ k = 0 \/ (2 * k - 1) * (2 * k - 1) * n * n <= 36 * Q

\* consistency_score = max(0, min(1.0, 1.0 - std * 3)), rounded (milli).
ConsistencyScore(values) == Max(0, Min(1000, 1000 - ThreeStdMilli(values)))

NdviChange(values) == IF Len(values) >= 2 THEN values[Len(values)] - values[1] ELSE 0

\* The trend analysis of get_multi_temporal_ndvi (lines 142-151).
TrendAnalysis(ndvi_change) ==
    IF ndvi_change > 50
    THEN [trend_direction |-> "improving", trend_score |-> Min(1000, 700 + ndvi_change)]
    ELSE IF ndvi_change < -50
    THEN [trend_direction |-> "declining", trend_score |-> Max(200, 500 + ndvi_change)]
    ELSE [trend_direction |-> "stable", trend_score |-> 600]

\* The trend analysis of _get_mock_temporal_data (lines 561-569).
MockTrendAnalysis(ndvi_change) ==
    IF ndvi_change > 30
    THEN [trend_direction |-> "improving", trend_score |-> Min(1000, 700 + ndvi_change)]
    ELSE IF ndvi_change < -30
    THEN [trend_direction |-> "declining", trend_score |-> Max(200, 500 + ndvi_change)]
    ELSE [trend_direction |-> "stable", trend_score |-> 600]

\* The result dict built from a non-empty series and its trend analysis.
TemporalResult(monthly_data, trend) ==
    LET ndvi_values == NdviSeries(monthly_data)
    IN  [ndvi_trend |-> ndvi_values,
         ndvi_current |-> ndvi_values[Len(ndvi_values)],
         ndvi_average |-> RoundDiv(SumSeq(ndvi_values), Len(ndvi_values)),
         ndvi_change |-> NdviChange(ndvi_values),
         trend_direction |-> trend.trend_direction,
         trend_score |-> trend.trend_score,
         monthly_data |-> monthly_data,
         consistency_score |-> ConsistencyScore(ndvi_values),
         months_analyzed |-> Len(monthly_data)]

\* _get_mock_temporal_data(months, partial_data): a non-empty partial_data
\* is taken as the series as it is; otherwise the series is generated.
_get_mock_temporal_data(months, partial_data, draw) ==
    LET monthly_data == IF partial_data # None /\ Len(partial_data[1]) > 0
                        THEN partial_data[1]
                        ELSE GenerateMonthlyData(months, draw)
        r == TemporalResult(monthly_data, MockTrendAnalysis(NdviChange(NdviSeries(monthly_data))))
    IN  [ndvi_trend |-> r.ndvi_trend, ndvi_current |-> r.ndvi_current,
         ndvi_average |-> r.ndvi_average, ndvi_change |-> r.ndvi_change,
         trend_direction |-> r.trend_direction, trend_score |-> r.trend_score,
         monthly_data |-> r.monthly_data, consistency_score |-> r.consistency_score,
         months_analyzed |-> r.months_analyzed, is_mock |-> TRUE]

\* A variant of InsufficientData that accepts a series of two samples.
InsufficientDataBelowTwo(monthly_data) == Len(monthly_data) < 2

\* The test of line 132: fewer than 3 months were collected.
InsufficientData(monthly_data) == Len(monthly_data) < 3

\* get_multi_temporal_ndvi(lat, lon, months_back) in world w with the draw
\* the generator would make.
get_multi_temporal_ndvi(w, draw) ==
    IF ADV_MOCK_MODE \/ w.kind = "no_libs"
    THEN _get_mock_temporal_data(w.months_back, None, draw)
    ELSE IF w.kind = "error"
    THEN _get_mock_temporal_data(w.months_back, None, draw)
    ELSE LET monthly_data == CollectMonthlyData(w.samples)
         IN  IF InsufficientData(monthly_data)
             THEN _get_mock_temporal_data(w.months_back, Some(monthly_data), draw)
             ELSE TemporalResult(monthly_data, TrendAnalysis(NdviChange(NdviSeries(monthly_data))))

\* The call runs the random generator of _get_mock_temporal_data.
RunsGenerator(w) == w.kind \in {"no_libs", "error"} \/ CollectMonthlyData(w.samples) = <<>>

GetMultiTemporalNdvi ==
    /\ HasNextInput("get_multi_temporal_ndvi")
    /\ \E draw \in (IF RunsGenerator(NextInput)
                    THEN MockTemporalDraws(NextInput.months_back) ELSE {NoDraw}) :
            temporal_data' = Append(temporal_data, get_multi_temporal_ndvi(NextInput, draw))
    /\ UNCHANGED <<requested, deforestation_data, sustainability, loan_risk>>
    /\ UNCHANGED pipelineVars

---------------------------------------------------------------------------
(* services/advanced_satellite_service.py: calculate_sustainability_score *)

\* int(raw * 100) for raw = m / 1000: the binary product falls just below
\* the integer for these m, and int() truncates it to one less.
TruncatedBelow == {290, 570, 580}

\* int((1 - m / 1000) * 100): the same for the inverted components.
InvertedTruncatedBelow ==
    {340, 550, 560, 670, 680, 780, 790, 800, 810, 890, 900, 910, 920, 930}

\* A variant of ComponentScore that keeps the raw value (milli) unscaled.
ComponentScoreUnscaled(raw) == raw

\* trend_score / consistency_score = int(raw * 100), raw in milli.
ComponentScore(raw) == raw \div 10 - (IF raw \in TruncatedBelow THEN 1 ELSE 0)

\* deforestation_score / climate_score = int((1 - score) * 100), score in
\* milli.
InvertedComponentScore(score) ==
    (1000 - score) \div 10 - (IF score \in InvertedTruncatedBelow THEN 1 ELSE 0)

\* A variant of Weights whose trend weight is 0.40.
WeightsHeavyTrend == [trend |-> 40, consistency |-> 20, deforestation |-> 25, climate |-> 25]

\* weights, in hundredths.
Weights == [trend |-> 30, consistency |-> 20, deforestation |-> 25, climate |-> 25]

\* The unrounded overall_score in units of 1/20 (the weights are multiples
\* of 0.05): 20 * (0.30 t + 0.20 c + 0.25 d + 0.25 k).
OverallScore20(trend_score, consistency_score, deforestation_score, climate_score) ==
    (Weights.trend \div 5) * trend_score
    + (Weights.consistency \div 5) * consistency_score
    + (Weights.deforestation \div 5) * deforestation_score
    + (Weights.climate \div 5) * climate_score

\* A variant of Grade whose C and D bands are exchanged.
GradeSwappedBands(overall20) ==
    IF overall20 >= 1600 THEN "A"
    ELSE IF overall20 >= 1300 THEN "B"
    ELSE IF overall20 >= 1000 THEN "D"
    ELSE IF overall20 >= 700 THEN "C"
    ELSE "F"

\* The grade is assigned from the unrounded overall_score (lines 384-398).
Grade(overall20) ==
    IF overall20 >= 1600 THEN "A"
    ELSE IF overall20 >= 1300 THEN "B"
    ELSE IF overall20 >= 1000 THEN "C"
    ELSE IF overall20 >= 700 THEN "D"
    ELSE "F"

Interpretation(grade) ==
    IF grade = "A" THEN "Excellent sustainability practices"
    ELSE IF grade = "B" THEN "Good sustainability with minor concerns"
    ELSE IF grade = "C" THEN "Average sustainability, improvements possible"
    ELSE IF grade = "D" THEN "Below average, significant concerns"
    ELSE "Poor sustainability, high risk"

\* round(overall_score).  An unrounded score whose exact value is x.5 is a
\* binary float on x.5 or just beside it, so round() returns either
\* neighbour: tie_up says which.
RoundOverall(overall20, tie_up) ==
    LET q == overall20 \div 20
        r == overall20 % 20
    IN  IF r > 10 \/ (r = 10 /\ tie_up) THEN q + 1 ELSE q

\* One if / elif pair of the factor extraction (lines 404-422).
Factor(score, below, above, risk, positive) ==
    IF score < below THEN [risk |-> <<risk>>, positive |-> <<>>]
    ELSE IF score > above THEN [risk |-> <<>>, positive |-> <<positive>>]
    ELSE [risk |-> <<>>, positive |-> <<>>]

calculate_sustainability_score(temporal, deforestation, weather, tie_up) ==
    LET trend_raw == Get(temporal, "trend_score", 500)
        consistency_raw == Get(temporal, "consistency_score", 500)
        trend_score == ComponentScore(trend_raw)
        consistency_score == ComponentScore(consistency_raw)
        deforestation_score == InvertedComponentScore(Get(deforestation, "deforestation_score", 0))
        climate_score == InvertedComponentScore(Get(weather, "weather_risk_score", 500))
        overall20 == OverallScore20(trend_score, consistency_score,
                                    deforestation_score, climate_score)
        grade == Grade(overall20)
        f1 == Factor(trend_score, 40, 70, "Declining vegetation health over time",
                     "Improving vegetation health trend")
        f2 == Factor(consistency_score, 40, 70, "Inconsistent farming patterns",
                     "Consistent and stable land management")
        f3 == Factor(deforestation_score, 50, 80, "Potential recent deforestation detected",
                     "No signs of recent deforestation")
        f4 == Factor(climate_score, 40, 70, "High climate/weather risk exposure",
                     "Favorable climate conditions")
    IN  [overall_score |-> RoundOverall(overall20, tie_up),
         grade |-> grade,
         component_scores |-> [trend_score |-> trend_score,
                               consistency_score |-> consistency_score,
                               deforestation_score |-> deforestation_score,
                               climate_score |-> climate_score],
         weights |-> Weights,
         interpretation |-> Interpretation(grade),
         risk_factors |-> f1.risk \o f2.risk \o f3.risk \o f4.risk,
         positive_factors |-> f1.positive \o f2.positive \o f3.positive \o f4.positive]

\* The three dicts handed to one calculate_sustainability_score call.
SustainabilityInput(trend_score, consistency_score, deforestation_score, weather_risk_score) ==
    [fn |-> "calculate_sustainability_score",
     temporal_data |-> [trend_score |-> trend_score, consistency_score |-> consistency_score],
     deforestation_data |-> [deforestation_score |-> deforestation_score],
     weather_data |-> [weather_risk_score |-> weather_risk_score]]

\* Dicts that lack the four keys the function reads.
SustainabilityInputWithoutScores ==
    [fn |-> "calculate_sustainability_score",
     temporal_data |-> [is_mock |-> TRUE],
     deforestation_data |-> [is_mock |-> TRUE],
     weather_data |-> [weather_status |-> "Unknown"]]

\* The input scores: the grid over [0, 1] (milli) and one value that int()
\* truncates below its exact product.
SustainabilityValues == ScoreValues \cup {290}

SustainabilityInputs ==
    {SustainabilityInput(t, c, d, k) :
        t \in SustainabilityValues, c \in SustainabilityValues,
        d \in SustainabilityValues, k \in SustainabilityValues}
    \cup {SustainabilityInputWithoutScores}

CalculateSustainabilityScore ==
    /\ HasNextInput("calculate_sustainability_score")
    /\ \E tie_up \in BOOLEAN :
            sustainability' = Append(sustainability,
                calculate_sustainability_score(NextInput.temporal_data,
                    NextInput.deforestation_data, NextInput.weather_data, tie_up))
    /\ UNCHANGED <<requested, temporal_data, deforestation_data, loan_risk>>
    /\ UNCHANGED pipelineVars

---------------------------------------------------------------------------
(* services/advanced_satellite_service.py: calculate_loan_risk_score *)

\* Strings that are searched are sequences of characters.
UpperCase == <<"A", "B", "C", "D", "E", "F", "G", "H", "I", "J", "K", "L", "M", "N", "O", "P", "Q", "R", "S", "T", "U", "V", "W", "X", "Y", "Z">>

LowerCase == <<"a", "b", "c", "d", "e", "f", "g", "h", "i", "j", "k", "l", "m", "n", "o", "p", "q", "r", "s", "t", "u", "v", "w", "x", "y", "z">>

\* str.lower() on the characters that occur.
ToLower(text) ==
    [i \in 1..Len(text) |->
        IF \E j \in 1..26 : UpperCase[j] = text[i]
        THEN LowerCase[CHOOSE j \in 1..26 : UpperCase[j] = text[i]]
        ELSE text[i]]

\* kw in text: kw occurs as a contiguous part of text.
Contains(text, kw) ==
    \E i \in 1..(Len(text) - Len(kw) + 1) : SubSeq(text, i, i + Len(kw) - 1) = kw

sustainable_keywords ==
    <<<<"i", "r", "r", "i", "g", "a", "t", "i", "o", "n">>,
      <<"o", "r", "g", "a", "n", "i", "c">>,
      <<"s", "o", "l", "a", "r">>,
      <<"c", "o", "n", "s", "e", "r", "v", "a", "t", "i", "o", "n">>,
      <<"d", "r", "i", "p">>,
      <<"s", "u", "s", "t", "a", "i", "n", "a", "b", "l", "e">>,
      <<"r", "e", "n", "e", "w", "a", "b", "l", "e">>>>

SustainablePurpose(purpose) ==
    \E n \in 1..Len(sustainable_keywords) : Contains(ToLower(purpose), sustainable_keywords[n])

\* A variant of AmountRisk without the surcharge of the second band.
AmountRiskSkippingSecondBand(loan_amount) ==
    IF loan_amount <= 200000 THEN 0
    ELSE IF loan_amount <= 500000 THEN 20
    ELSE 30

\* amount_risk; loan_amount in cents.
AmountRisk(loan_amount) ==
    IF loan_amount <= 50000 THEN 0
    ELSE IF loan_amount <= 200000 THEN 10
    ELSE IF loan_amount <= 500000 THEN 20
    ELSE 30

RiskScore(sustainability_score, loan_amount, purpose) ==
    Max(0, Min(100, (100 - sustainability_score) + AmountRisk(loan_amount)
                    + (IF SustainablePurpose(purpose) THEN -10 ELSE 0)))

\* The approval tier of a risk score: the rate in percent and
\* round(max_amount, 2) in cents.
ApprovalTier(risk_score, loan_amount) ==
    IF risk_score <= 30
    THEN [approval_likelihood |-> "high", suggested_interest_rate |-> 8,
          max_recommended_amount |-> Min(loan_amount * 2, 1000000)]
    ELSE IF risk_score <= 50
    THEN [approval_likelihood |-> "medium", suggested_interest_rate |-> 12,
          max_recommended_amount |-> RoundDiv(loan_amount * 12, 10)]
    ELSE IF risk_score <= 70
    THEN [approval_likelihood |-> "low", suggested_interest_rate |-> 18,
          max_recommended_amount |-> RoundDiv(loan_amount * 7, 10)]
    ELSE [approval_likelihood |-> "very_low", suggested_interest_rate |-> 25,
          max_recommended_amount |-> RoundDiv(loan_amount * 3, 10)]

\* The lines "<prefix> <factor>" appended for a list of factors.
Prefixed(prefix, factors) ==
    [i \in 1..Len(factors) |-> [line |-> prefix, factor |-> factors[i]]]

\* A variant of DecisionFactors that lists the positive factors first.
DecisionFactorsPositivesFirst(sustainability_in, sustainability_score, sustainable_purpose) ==
    <<[line |-> "Sustainability score", score |-> sustainability_score,
       grade |-> Get(sustainability_in, "grade", "N/A")]>>
    \o Prefixed("confirmation", Get(sustainability_in, "positive_factors", <<>>))
    \o Prefixed("warning", Get(sustainability_in, "risk_factors", <<>>))
    \o (IF sustainable_purpose
        THEN <<[line |-> "confirmation",
                factor |-> "Sustainable loan purpose (rate reduction applied)"]>>
        ELSE <<>>)

\* decision_factors: each line is a record of its prefix and its content.
DecisionFactors(sustainability_in, sustainability_score, sustainable_purpose) ==
    <<[line |-> "Sustainability score", score |-> sustainability_score,
       grade |-> Get(sustainability_in, "grade", "N/A")]>>
    \o Prefixed("warning", Get(sustainability_in, "risk_factors", <<>>))
    \o Prefixed("confirmation", Get(sustainability_in, "positive_factors", <<>>))
    \o (IF sustainable_purpose
        THEN <<[line |-> "confirmation",
                factor |-> "Sustainable loan purpose (rate reduction applied)"]>>
        ELSE <<>>)

calculate_loan_risk_score(sustainability_in, loan_amount, purpose) ==
    LET sustainability_score == Get(sustainability_in, "overall_score", 50)
        risk_score == RiskScore(sustainability_score, loan_amount, purpose)
        tier == ApprovalTier(risk_score, loan_amount)
    IN  [risk_score |-> risk_score,
         approval_likelihood |-> tier.approval_likelihood,
         suggested_interest_rate |-> tier.suggested_interest_rate,
         suggested_interest_rate_pct |-> tier.suggested_interest_rate,
         max_recommended_amount |-> tier.max_recommended_amount,
         decision_factors |-> DecisionFactors(sustainability_in, sustainability_score,
                                              SustainablePurpose(purpose))]

\* Requested amounts (cents) on both sides of 500, 2000 and 5000 USD, one
\* cent, and 10000 USD.
LoanAmounts == {1, 50000, 50001, 150000, 200000, 200001, 500000, 500001, 1000000}

\* Purposes: with a keyword, with a keyword in capitals, with a keyword
\* inside a longer word, without a keyword, and empty.
LoanPurposes ==
    {<<"d", "r", "i", "p", " ", "i", "r", "r", "i", "g", "a", "t", "i", "o", "n", " ", "u", "p", "g", "r", "a", "d", "e">>,
     <<"S", "o", "l", "a", "r", " ", "P", "u", "m", "p">>,
     <<"u", "n", "s", "u", "s", "t", "a", "i", "n", "a", "b", "l", "e", " ", "l", "o", "g", "g", "i", "n", "g">>,
     <<"b", "u", "y", " ", "a", " ", "t", "r", "a", "c", "t", "o", "r">>,
     <<>>}

\* The factor lists a sustainability result can carry into the call.
FactorLists ==
    {[risk_factors |-> <<>>, positive_factors |-> <<>>],
     [risk_factors |-> <<"Declining vegetation health over time",
                         "High climate/weather risk exposure">>,
      positive_factors |-> <<"No signs of recent deforestation">>],
     [risk_factors |-> <<>>,
      positive_factors |-> <<"Improving vegetation health trend",
                             "Favorable climate conditions">>]}

\* A sustainability dict as calculate_sustainability_score returns it.
SustainabilityResult(overall_score, factors) ==
    [overall_score |-> overall_score,
     grade |-> Grade(overall_score * 20),
     risk_factors |-> factors.risk_factors,
     positive_factors |-> factors.positive_factors]

LoanRiskInput(sustainability_in, loan_amount, purpose) ==
    [fn |-> "calculate_loan_risk_score", sustainability |-> sustainability_in,
     loan_amount |-> loan_amount, purpose |-> purpose]

LoanRiskInputs ==
    {LoanRiskInput(SustainabilityResult(o, f), a, p) :
        o \in 0..100, f \in FactorLists, a \in LoanAmounts, p \in LoanPurposes}
    \cup {LoanRiskInput([is_mock |-> TRUE], a, p) : a \in LoanAmounts, p \in LoanPurposes}

CalculateLoanRiskScore ==
    /\ HasNextInput("calculate_loan_risk_score")
    /\ loan_risk' = Append(loan_risk,
            calculate_loan_risk_score(NextInput.sustainability, NextInput.loan_amount,
                                      NextInput.purpose))
    /\ UNCHANGED <<requested, temporal_data, deforestation_data, sustainability>>
    /\ UNCHANGED pipelineVars

---------------------------------------------------------------------------
(* agents/multi_agent_system.py: the two fetch tasks of Field Scout *)

\* The two try/except blocks of field_scout_agent taken as tasks that may
\* run in either order, joined before the stage returns.  Each task writes
\* its own local (satellite_data or weather_data) and appends to errors.

\* Variant: a satellite task that always substitutes Field Scout's fallback.
SatelliteTaskAlwaysFallback(sw) ==
    [data |-> ScoutSatelliteFallback(sw.exc), errors |-> <<"Satellite error">>]

\* Task 1: try: satellite_data = get_farm_ndvi(lat, lon) except Exception.
SatelliteTask(sw) ==
    IF get_farm_ndvi_raises(sw)
    THEN [data |-> ScoutSatelliteFallback(sw.exc), errors |-> <<"Satellite error">>]
    ELSE [data |-> get_farm_ndvi(sw), errors |-> <<>>]

\* Variant: a weather task that always substitutes Field Scout's fallback.
WeatherTaskAlwaysFallback(ww) ==
    [data |-> ScoutWeatherFallback(ww.exc), errors |-> <<"Weather error">>]

\* Task 2: try: weather_data = get_weather_analysis(lat, lon) except Exception.
WeatherTask(ww) ==
    IF get_weather_analysis_raises(ww)
    THEN [data |-> ScoutWeatherFallback(ww.exc), errors |-> <<"Weather error">>]
    ELSE [data |-> get_weather_analysis(ww), errors |-> <<>>]

\* The errors local while the tasks run (state.errors holds it).
ScoutErrorsSoFar(s) == IF s.errors = None THEN <<>> ELSE s.errors[1]

\* The field report compiled from the two locals.
ScoutFieldReport(satellite_data, errors) ==
    [ndvi_score |-> satellite_data.ndvi_score,
     status |-> Get(satellite_data, "status", "Unknown"),
     assessment |-> IF errors = <<>> THEN "Data collection successful"
                    ELSE "Partial data",
     error_count |-> Len(errors)]

ScoutInput == requested[1]

ScoutRunning ==
    /\ pc = "field_scout"
    /\ Len(requested) = 1
    /\ requested[1].fn = "field_scout_agent"

ScoutFetchSatellite ==
    /\ ScoutRunning
    /\ fetched.satellite = "-"
    /\ ~(get_farm_ndvi_raises(ScoutInput.sw) /\ ~ExceptHandled(ScoutInput.sw.exc))
    /\ LET task == SatelliteTask(ScoutInput.sw)
       IN  state' = Some([state[1] EXCEPT
                            !.satellite_data = Some(task.data),
                            !.errors = Some(ScoutErrorsSoFar(state[1]) \o task.errors)])
    /\ fetched' = [fetched EXCEPT !.satellite = FetchOutcome(ScoutInput.sw)]
    /\ calls' = calls \o <<"get_farm_ndvi">>
    /\ UNCHANGED <<pc, LANGGRAPH_AVAILABLE, event, response>>
    /\ UNCHANGED advancedVars

ScoutFetchWeather ==
    /\ ScoutRunning
    /\ fetched.weather = "-"
    /\ ~(get_weather_analysis_raises(ScoutInput.ww) /\ ~ExceptHandled(ScoutInput.ww.exc))
    /\ LET task == WeatherTask(ScoutInput.ww)
       IN  state' = Some([state[1] EXCEPT
                            !.weather_data = Some(task.data),
                            !.errors = Some(ScoutErrorsSoFar(state[1]) \o task.errors)])
    /\ fetched' = [fetched EXCEPT !.weather = FetchOutcome(ScoutInput.ww)]
    /\ calls' = calls \o <<"get_weather_analysis">>
    /\ UNCHANGED <<pc, LANGGRAPH_AVAILABLE, event, response>>
    /\ UNCHANGED advancedVars

\* The join: both locals are set, the report is compiled and the stage returns.
ScoutJoin ==
    /\ ScoutRunning
    /\ fetched.satellite # "-"
    /\ fetched.weather # "-"
    /\ LET s == state[1]
           errors == ScoutErrorsSoFar(s)
           ret == FieldScoutReturn(s, s.satellite_data[1], s.weather_data[1],
                                   ScoutFieldReport(s.satellite_data[1], errors), errors)
       IN  state' = Some(ApplyReturn(s, ret))
    /\ pc' = NextNode("field_scout")
    /\ UNCHANGED <<LANGGRAPH_AVAILABLE, calls, fetched, event, response>>
    /\ UNCHANGED advancedVars

ScoutInit ==
    /\ pc = "field_scout"
    /\ \E r \in Requests :
            state = Some(initial_state(r.latitude, r.longitude, r.loan_purpose, r.loan_amount))
    /\ LANGGRAPH_AVAILABLE \in BOOLEAN
    /\ calls = <<"field_scout_agent">>
    /\ fetched = NoFetch
    /\ event = None
    /\ response = None
    /\ requested \in {<<[fn |-> "field_scout_agent", sw |-> sw, ww |-> ww]>> :
                        sw \in SatelliteWorld, ww \in WeatherWorld}
    /\ temporal_data = <<>>
    /\ deforestation_data = <<>>
    /\ sustainability = <<>>
    /\ loan_risk = <<>>

ScoutNext == ScoutFetchSatellite \/ ScoutFetchWeather \/ ScoutJoin

ScoutSpec == ScoutInit /\ [][ScoutNext]_vars

---------------------------------------------------------------------------
(* Specification of the analysis functions *)

\* One session of the analysis service: the inputs of its calls are drawn
\* at the start, and each call is answered in turn by its function.
AnalysisInit ==
    /\ pc = "Idle"
    /\ state = None
    /\ LANGGRAPH_AVAILABLE \in BOOLEAN
    /\ calls = <<>>
    /\ fetched = NoFetch
    /\ event = None
    /\ response = None
    /\ requested \in {<<w>> : w \in DeforestationWorld \cup TemporalWorld
                                    \cup SustainabilityInputs \cup LoanRiskInputs}
    /\ temporal_data = <<>>
    /\ deforestation_data = <<>>
    /\ sustainability = <<>>
    /\ loan_risk = <<>>

AnalysisNext ==
    \/ CheckDeforestation
    \/ GetMultiTemporalNdvi
    \/ CalculateSustainabilityScore
    \/ CalculateLoanRiskScore

AnalysisSpec == AnalysisInit /\ [][AnalysisNext]_vars

---------------------------------------------------------------------------
(* Properties of check_deforestation *)

\* The answered check_deforestation calls: input i got result i.
DeforestationAnswered == 1..Len(deforestation_data)

\* The call had no pair of samples to compare.
WithoutBothSamples(w) == w.kind \in {"no_libs", "error"} \/ SamplesMissing(w)

\* C11: when check_deforestation cannot obtain the historical or the recent
\* sample (or the catalog access fails), the assessment it returns has
\* risk_level none and deforestation_detected false; it never reports a
\* detection or a medium/high level without both samples.
C11_MissingSamplesConservative ==
    \A i \in DeforestationAnswered :
        WithoutBothSamples(requested[i]) =>
            /\ deforestation_data[i].risk_level = "none"
            /\ deforestation_data[i].deforestation_detected = FALSE

\* The call compared two samples (the real-data path).
ComparedSamples(w) == w.kind = "samples" /\ ~SamplesMissing(w)

\* C12: with change = recent - historical, risk_level and score follow the
\* ordered rules, first match winning: historical > 0.5 and change < -0.20
\* gives high with min(1.0, 2|change|); else historical > 0.4 and
\* change < -0.15 gives medium with min(0.7, 1.5|change|); else
\* change < -0.10 gives low with min(0.4, |change|); else none with 0 (each
\* score to the three decimals of the result).  Historical 0.65 and recent
\* 0.35 give high with score 0.60.
C12_OrderedRules ==
    \A i \in DeforestationAnswered :
        ComparedSamples(requested[i]) =>
            LET h == requested[i].historical[1]
                r == requested[i].recent[1]
                loss == h - r
                d == deforestation_data[i]
                rule1 == h > 500 /\ r - h < -200
                rule2 == h > 400 /\ r - h < -150
                rule3 == r - h < -100
            IN  /\ rule1 =>
                    /\ d.risk_level = "high"
                    /\ d.deforestation_score = Min(1000, 2 * loss)
                /\ (~rule1 /\ rule2) =>
                    /\ d.risk_level = "medium"
                    /\ 2 * d.deforestation_score - Min(1400, 3 * loss) \in {-1, 0, 1}
                /\ (~rule1 /\ ~rule2 /\ rule3) =>
                    /\ d.risk_level = "low"
                    /\ d.deforestation_score = Min(400, loss)
                /\ (~rule1 /\ ~rule2 /\ ~rule3) =>
                    /\ d.risk_level = "none"
                    /\ d.deforestation_score = 0
                /\ (h = 650 /\ r = 350) =>
                    /\ d.risk_level = "high"
                    /\ d.deforestation_score = 600

C12_Witness ==
    \E i \in DeforestationAnswered :
        /\ requested[i].historical = Some(650)
        /\ requested[i].recent = Some(350)
        /\ deforestation_data[i].risk_level = "high"
        /\ deforestation_data[i].deforestation_score = 600
        /\ deforestation_data[i].change_detected = -300

\* C13: whenever check_deforestation classifies a pair of samples as
\* risk_level medium, the returned deforestation_detected flag is true.
C13_MediumIsDetected ==
    \A i \in DeforestationAnswered :
        (ComparedSamples(requested[i]) /\ deforestation_data[i].risk_level = "medium")
            => deforestation_data[i].deforestation_detected = TRUE

\* C14: in every assessment check_deforestation returns, from real samples
\* or from the fallback generator, deforestation_detected implies that the
\* risk_level is medium or high.
C14_DetectedImpliesMediumOrHigh ==
    \A i \in DeforestationAnswered :
        deforestation_data[i].deforestation_detected
            => deforestation_data[i].risk_level \in {"medium", "high"}

C14_Witness ==
    \E i \in DeforestationAnswered :
        /\ ComparedSamples(requested[i])
        /\ deforestation_data[i].deforestation_detected
        /\ deforestation_data[i].risk_level = "high"

---------------------------------------------------------------------------
(* Properties of get_multi_temporal_ndvi *)

\* The answered get_multi_temporal_ndvi calls: input i got result i.
TemporalAnswered == 1..Len(temporal_data)

\* The monthly samples the call collected from the catalog.
Collected(w) == IF w.kind = "months" THEN CollectMonthlyData(w.samples) ELSE <<>>

\* C15: every trend result computed from collected samples, with 3 or more
\* samples and on the partial-data fallback path alike, uses
\* change = last - first with: change > +0.05 improving with
\* min(1.0, 0.7 + change); change < -0.05 declining with
\* max(0.2, 0.5 + change); otherwise stable with 0.6.  The series
\* [0.40, 0.42, 0.45, 0.50, 0.55, 0.60] gives improving with 0.90.
C15_TrendThresholds ==
    \A i \in TemporalAnswered :
        Collected(requested[i]) # <<>> =>
            LET collected == Collected(requested[i])
                change == IF Len(collected) >= 2
                          THEN collected[Len(collected)].ndvi - collected[1].ndvi ELSE 0
                d == temporal_data[i]
            IN  /\ change > 50 =>
                    /\ d.trend_direction = "improving"
                    /\ d.trend_score = Min(1000, 700 + change)
                /\ change < -50 =>
                    /\ d.trend_direction = "declining"
                    /\ d.trend_score = Max(200, 500 + change)
                /\ (change <= 50 /\ change >= -50) =>
                    /\ d.trend_direction = "stable"
                    /\ d.trend_score = 600
                /\ requested[i].samples = ScenarioSeries =>
                    /\ d.trend_direction = "improving"
                    /\ d.trend_score = 900

\* C16: every result whose metrics rest on fewer than 3 collected samples
\* carries the marker is_mock; a result returned without the marker has
\* months_analyzed >= 3.
C16_FewSamplesMarked ==
    \A i \in TemporalAnswered :
        LET d == temporal_data[i]
            marked == "is_mock" \in DOMAIN d /\ d.is_mock = TRUE
        IN  /\ Len(Collected(requested[i])) < 3 => marked
            /\ ~marked => d.months_analyzed >= 3

C16_Witness ==
    \E i \in TemporalAnswered :
        /\ Len(Collected(requested[i])) = 2
        /\ temporal_data[i].monthly_data = Collected(requested[i])
        /\ "is_mock" \in DOMAIN temporal_data[i]
        /\ temporal_data[i].is_mock = TRUE

\* C17: when fewer than 3 usable monthly samples are collected, the series
\* of the result is a substituted series of months_back entries, and
\* trend_score and consistency_score are not computed from the 1 or 2
\* collected samples alone.
C17_FewSamplesSubstituted ==
    \A i \in TemporalAnswered :
        (requested[i].kind = "months" /\ Len(Collected(requested[i])) < 3) =>
            /\ Len(temporal_data[i].ndvi_trend) = requested[i].months_back
            /\ temporal_data[i].months_analyzed = requested[i].months_back
            /\ Collected(requested[i]) # <<>> =>
                    temporal_data[i].monthly_data # Collected(requested[i])

---------------------------------------------------------------------------
(* Properties of calculate_sustainability_score *)

\* Two calls of calculate_sustainability_score, to compare their results:
\* the trend score runs over the grid, the other three scores over values
\* that place the overall score in every grade and on x.5.
PairSustainabilityInputs ==
    {SustainabilityInput(t, c, d, k) :
        t \in ScoreValues, c \in {100, 800}, d \in {0, 600}, k \in {100, 500}}

PairInit ==
    /\ pc = "Idle"
    /\ state = None
    /\ LANGGRAPH_AVAILABLE \in BOOLEAN
    /\ calls = <<>>
    /\ fetched = NoFetch
    /\ event = None
    /\ response = None
    /\ requested \in {<<a, b>> : a \in PairSustainabilityInputs, b \in PairSustainabilityInputs}
    /\ temporal_data = <<>>
    /\ deforestation_data = <<>>
    /\ sustainability = <<>>
    /\ loan_risk = <<>>

PairNext == CalculateSustainabilityScore

PairSpec == PairInit /\ [][PairNext]_vars

\* The answered calculate_sustainability_score calls: input i got result i.
SustainabilityAnswered == 1..Len(sustainability)

\* The four scores the call reads (with the defaults of dict.get) lie in
\* [0, 1].
ScoresInUnitRange(in) ==
    /\ Get(in.temporal_data, "trend_score", 500) \in 0..1000
    /\ Get(in.temporal_data, "consistency_score", 500) \in 0..1000
    /\ Get(in.deforestation_data, "deforestation_score", 0) \in 0..1000
    /\ Get(in.weather_data, "weather_risk_score", 500) \in 0..1000

Grades == {"A", "B", "C", "D", "F"}

\* C18: for inputs whose four scores lie in [0, 1] the result has four
\* integer component scores in 0..100, an integer overall_score in 0..100
\* and one grade out of A, B, C, D, F.
C18_ScoresInRange ==
    \A i \in SustainabilityAnswered :
        ScoresInUnitRange(requested[i]) =>
            LET r == sustainability[i]
            IN  /\ DOMAIN r.component_scores =
                        {"trend_score", "consistency_score", "deforestation_score", "climate_score"}
                /\ \A c \in DOMAIN r.component_scores : r.component_scores[c] \in 0..100
                /\ r.overall_score \in 0..100
                /\ r.grade \in Grades

C18_Witness ==
    \E i \in SustainabilityAnswered :
        /\ requested[i] = SustainabilityInput(1000, 1000, 0, 0)
        /\ sustainability[i].overall_score = 100
        /\ sustainability[i].component_scores.deforestation_score = 100
        /\ sustainability[i].grade = "A"

\* C19: the reported grade is the band of the reported overall_score: A iff
\* overall_score >= 80, B iff 65..79, C iff 50..64, D iff 35..49, F iff
\* below 35.
C19_GradeIsBandOfReportedScore ==
    \A i \in SustainabilityAnswered :
        LET r == sustainability[i]
        IN  /\ r.grade = "A" <=> r.overall_score >= 80
            /\ r.grade = "B" <=> (r.overall_score >= 65 /\ r.overall_score < 80)
            /\ r.grade = "C" <=> (r.overall_score >= 50 /\ r.overall_score < 65)
            /\ r.grade = "D" <=> (r.overall_score >= 35 /\ r.overall_score < 50)
            /\ r.grade = "F" <=> r.overall_score < 35

\* The order of the grades: F < D < C < B < A.
GradeRank(grade) ==
    IF grade = "A" THEN 4 ELSE IF grade = "B" THEN 3 ELSE IF grade = "C" THEN 2
    ELSE IF grade = "D" THEN 1 ELSE 0

\* C20: of any two results with reported overall_score s1 < s2, the grade
\* reported with s1 is never better than the grade reported with s2.
C20_GradeMonotone ==
    \A i \in SustainabilityAnswered, j \in SustainabilityAnswered :
        sustainability[i].overall_score < sustainability[j].overall_score
            => GradeRank(sustainability[i].grade) <= GradeRank(sustainability[j].grade)

C20_Witness ==
    /\ Len(sustainability) = 2
    /\ sustainability[1].overall_score = 79
    /\ sustainability[2].overall_score = 80
    /\ sustainability[1].grade = "B"
    /\ sustainability[2].grade = "B"

\* The risk and the positive message of each component, in the order of the
\* factor extraction.
FactorMessages ==
    <<[component |-> "trend_score",
       risk |-> "Declining vegetation health over time",
       positive |-> "Improving vegetation health trend"],
      [component |-> "consistency_score",
       risk |-> "Inconsistent farming patterns",
       positive |-> "Consistent and stable land management"],
      [component |-> "deforestation_score",
       risk |-> "Potential recent deforestation detected",
       positive |-> "No signs of recent deforestation"],
      [component |-> "climate_score",
       risk |-> "High climate/weather risk exposure",
       positive |-> "Favorable climate conditions"]>>

\* The messages of kind "risk" or "positive" of the components that satisfy
\* Holds, in the order of FactorMessages.
RECURSIVE FactorsWhere(_, _, _, _)
FactorsWhere(component_scores, kind, Holds(_), n) ==
    IF n = 0 THEN <<>>
    ELSE FactorsWhere(component_scores, kind, Holds, n - 1)
         \o (IF Holds(component_scores[FactorMessages[n].component])
             THEN <<FactorMessages[n][kind]>> ELSE <<>>)

Below40(score) == score < 40

Above70(score) == score > 70

\* C21: each of the four components contributes a risk factor exactly when
\* its 0-100 score is below 40 and a positive factor exactly when it is
\* above 70, never both; the two lists hold at most 4 entries together, in
\* the order trend, consistency, deforestation, climate.
C21_FactorThresholds ==
    \A i \in SustainabilityAnswered :
        LET r == sustainability[i]
        IN  /\ r.risk_factors = FactorsWhere(r.component_scores, "risk", Below40, 4)
            /\ r.positive_factors = FactorsWhere(r.component_scores, "positive", Above70, 4)
            /\ Len(r.risk_factors) + Len(r.positive_factors) <= 4

---------------------------------------------------------------------------
(* Properties of calculate_loan_risk_score *)

\* The answered calculate_loan_risk_score calls: input i got result i.
LoanAnswered == 1..Len(loan_risk)

\* The purposes of LoanPurposes whose lower-cased text contains one of the
\* seven keywords.
KeywordPurposes ==
    {<<"d", "r", "i", "p", " ", "i", "r", "r", "i", "g", "a", "t", "i", "o", "n", " ", "u", "p", "g", "r", "a", "d", "e">>,
     <<"S", "o", "l", "a", "r", " ", "P", "u", "m", "p">>,
     <<"u", "n", "s", "u", "s", "t", "a", "i", "n", "a", "b", "l", "e", " ", "l", "o", "g", "g", "i", "n", "g">>}

\* The input gives an overall score in 0..100 and a positive amount.
ScoredLoanInput(in) ==
    /\ "overall_score" \in DOMAIN in.sustainability
    /\ in.sustainability.overall_score \in 0..100
    /\ in.loan_amount > 0

C23_DecisionFactorsOrder ==
    \A i \in LoanAnswered :
        LET in == requested[i]
            risks == Get(in.sustainability, "risk_factors", <<>>)
            positives == Get(in.sustainability, "positive_factors", <<>>)
            discounted == in.purpose \in KeywordPurposes
            d == loan_risk[i].decision_factors
            n == 1 + Len(risks) + Len(positives)
        IN  /\ Len(d) = n + (IF discounted THEN 1 ELSE 0)
            /\ d[1].line = "Sustainability score"
            /\ d[1].score = Get(in.sustainability, "overall_score", 50)
            /\ \A k \in 1..Len(risks) :
                    d[1 + k] = [line |-> "warning", factor |-> risks[k]]
            /\ \A k \in 1..Len(positives) :
                    d[1 + Len(risks) + k] = [line |-> "confirmation", factor |-> positives[k]]
            /\ discounted =>
                    d[n + 1] = [line |-> "confirmation",
                                factor |-> "Sustainable loan purpose (rate reduction applied)"]

C23_Witness ==
    \E i \in LoanAnswered :
        /\ Len(Get(requested[i].sustainability, "risk_factors", <<>>)) = 2
        /\ Len(Get(requested[i].sustainability, "positive_factors", <<>>)) = 1
        /\ requested[i].purpose \in KeywordPurposes
        /\ Len(loan_risk[i].decision_factors) = 5
        /\ loan_risk[i].decision_factors[5].factor
                = "Sustainable loan purpose (rate reduction applied)"

---------------------------------------------------------------------------
(* Further properties of the scoring stages *)

\* The distance of a composite score (e4) from the nearer of the two
\* decision thresholds 0.4 and 0.6.
ThresholdDistance(composite_e4) ==
    Min(Abs(composite_e4 - 4000), Abs(composite_e4 - 6000))

\* The composite scores the Risk Analyst computes over the grid.
GridComposites ==
    {CompositeScoreE4(n, w, d) : n \in ScoreValues, w \in ScoreValues, d \in ScoreValues}

\* C24: of any two composite scores that receive the same decision label,
\* the one farther from its nearer threshold (0.4 or 0.6) never gets the
\* lower confidence.  The finished run is compared with the run on every
\* other composite score of the grid.
C24_ConfidenceGrowsWithDistance ==
    pc = "END" =>
        \A other \in GridComposites :
            (Decide(other) = S.final_decision[1]
             /\ ThresholdDistance(other) > ThresholdDistance(S.composite_score[1]))
                => Confidence(other) >= S.confidence[1]

\* C28: the risk_level the Risk Analyst stores agrees with the final
\* decision of the same run: LOW exactly when APPROVED, MEDIUM exactly when
\* CONDITIONAL, HIGH exactly when REJECTED, the thresholds 0.4 and 0.6
\* included.
C28_RiskLevelMatchesDecision ==
    pc = "END" =>
        LET level == S.risk_scores[1].risk_level
            d == S.final_decision[1]
        IN  /\ level = "LOW" <=> d = "APPROVED"
            /\ level = "MEDIUM" <=> d = "CONDITIONAL"
            /\ level = "HIGH" <=> d = "REJECTED"

---------------------------------------------------------------------------
(* Further properties of check_deforestation *)

\* Two calls of check_deforestation that both compare real samples: a
\* historical sample in each band of the rules, every change.
PairDeforestationWorlds ==
    {[fn |-> "check_deforestation", kind |-> "samples",
      historical |-> Some(h), recent |-> Some(h + c)] :
        h \in {300, 450, 650}, c \in ChangeValues}

DeforestationPairInit ==
    /\ pc = "Idle"
    /\ state = None
    /\ LANGGRAPH_AVAILABLE \in BOOLEAN
    /\ calls = <<>>
    /\ fetched = NoFetch
    /\ event = None
    /\ response = None
    /\ requested \in {<<a, b>> : a \in PairDeforestationWorlds, b \in PairDeforestationWorlds}
    /\ temporal_data = <<>>
    /\ deforestation_data = <<>>
    /\ sustainability = <<>>
    /\ loan_risk = <<>>

DeforestationPairNext == CheckDeforestation

DeforestationPairSpec == DeforestationPairInit /\ [][DeforestationPairNext]_vars

\* The vegetation loss of an assessment: historical - recent.
Loss(d) == d.ndvi_historical - d.ndvi_recent

\* The original statement of C25: of any two classified inputs, the one
\* with the larger loss never receives the smaller deforestation_score.
C25_ScoreMonotoneInLoss ==
    \A i \in 1..Len(deforestation_data), j \in 1..Len(deforestation_data) :
        Loss(deforestation_data[i]) > Loss(deforestation_data[j])
            => deforestation_data[i].deforestation_score
                    >= deforestation_data[j].deforestation_score

\* C25 (amended): of any two classified inputs with the same historical
\* sample, the one with the larger loss (more negative change = recent -
\* historical) never receives the smaller deforestation_score.
C25_ScoreMonotoneForSameHistorical ==
    \A i \in 1..Len(deforestation_data), j \in 1..Len(deforestation_data) :
        (deforestation_data[i].ndvi_historical = deforestation_data[j].ndvi_historical
         /\ Loss(deforestation_data[i]) > Loss(deforestation_data[j]))
            => deforestation_data[i].deforestation_score
                    >= deforestation_data[j].deforestation_score

C25_Witness ==
    /\ Len(deforestation_data) = 2
    /\ deforestation_data[1].ndvi_historical = 650
    /\ deforestation_data[2].ndvi_historical = 650
    /\ deforestation_data[1].risk_level = "high"
    /\ deforestation_data[2].risk_level = "medium"
    /\ deforestation_data[1].deforestation_score > deforestation_data[2].deforestation_score

---------------------------------------------------------------------------
(* Further properties of calculate_sustainability_score *)

\* The component scores of a result, in the order trend, consistency,
\* deforestation, climate.
Components(r) ==
    <<r.component_scores.trend_score, r.component_scores.consistency_score,
      r.component_scores.deforestation_score, r.component_scores.climate_score>>

\* C26: overall_score is 0.30 trend + 0.20 consistency + 0.25 deforestation
\* + 0.25 climate of the four integer component scores, rounded to the
\* nearest integer; the weights sum to 1.0, and overall_score is never below
\* the smallest nor above the largest component score.
C26_ConvexCombination ==
    \A i \in SustainabilityAnswered :
        LET r == sustainability[i]
            c == Components(r)
            sum100 == 30 * c[1] + 20 * c[2] + 25 * c[3] + 25 * c[4]
        IN  /\ 100 * r.overall_score - sum100 \in -50..50
            /\ r.weights.trend + r.weights.consistency
                    + r.weights.deforestation + r.weights.climate = 100
            /\ \E k \in 1..4 : c[k] <= r.overall_score
            /\ \E k \in 1..4 : c[k] >= r.overall_score

C26_Witness ==
    \E i \in SustainabilityAnswered :
        /\ Components(sustainability[i]) = <<100, 10, 100, 90>>
        /\ sustainability[i].overall_score = 80

---------------------------------------------------------------------------
(* Field Scout: independence of the two fetches *)

\* What the sequential code of field_scout_agent stores for the same two
\* fetch outcomes.
SequentialScout ==
    field_scout_agent(S, ScoutInput.sw, ScoutInput.ww)

\* C27: in whichever order the satellite task and the weather task run, as
\* soon as a task has finished its local holds what the sequential stage
\* stores for it, the other task never changes it, and the stage returns
\* with exactly the satellite_data and weather_data of the sequential code;
\* satellite_data is determined by the satellite fetch alone and weather_data
\* by the weather fetch alone, also when the other fetch raised.
C27_FetchesIndependent ==
    (Len(requested) = 1 /\ requested[1].fn = "field_scout_agent") =>
        /\ fetched.satellite # "-" =>
              /\ S.satellite_data = SequentialScout.satellite_data
              /\ S.satellite_data[1] =
                    (IF get_farm_ndvi_raises(ScoutInput.sw)
                     THEN [error |-> ScoutInput.sw.exc, ndvi_score |-> 0]
                     ELSE get_farm_ndvi(ScoutInput.sw))
        /\ fetched.weather # "-" =>
              /\ S.weather_data = SequentialScout.weather_data
              /\ S.weather_data[1] =
                    (IF get_weather_analysis_raises(ScoutInput.ww)
                     THEN [error |-> ScoutInput.ww.exc, weather_risk_score |-> 500]
                     ELSE get_weather_analysis(ScoutInput.ww))

\* The weather task ran first and returned real data, the satellite fetch
\* then raised, and the stage has returned with the real weather data.
C27_Witness ==
    /\ Len(requested) = 1 /\ requested[1].fn = "field_scout_agent"
    /\ pc # "field_scout"
    /\ calls = <<"field_scout_agent", "get_weather_analysis", "get_farm_ndvi">>
    /\ fetched = [satellite |-> "raised", weather |-> "real"]
    /\ S.weather_data = Some(get_weather_analysis(ScoutInput.ww))
    /\ S.satellite_data = Some(ScoutSatelliteFallback(ScoutInput.sw.exc))
    /\ S.agent_trace = <<"field_scout">>
---------------------------------------------------------------------------
(* Pipeline: the decision does not depend on the stated purpose or amount *)

\* The run of the three stages for request r on the fetch results of the
\* current run.
OtherRun(r) ==
    LET s0 == initial_state(r.latitude, r.longitude, r.loan_purpose, r.loan_amount)
        s1 == ApplyReturn(s0, FieldScoutReturn(s0, S.satellite_data[1], S.weather_data[1],
                                               S.field_report[1],
                                               IF S.errors = None THEN <<>> ELSE S.errors[1]))
        s2 == ApplyReturn(s1, risk_analyst_agent(s1))
    IN  ApplyReturn(s2, loan_officer_agent(s2))

\* C29: a finished run and the run of any other request (other loan_purpose,
\* other loan_amount) on the same satellite and weather data end with the
\* same final_decision, confidence, risk_scores and certificate_eligible.
C29_DecisionIgnoresPurposeAndAmount ==
    (pc = "END" /\ state # None) =>
        \A r \in Requests :
            /\ OtherRun(r).final_decision = S.final_decision
            /\ OtherRun(r).confidence = S.confidence
            /\ OtherRun(r).risk_scores = S.risk_scores
            /\ OtherRun(r).certificate_eligible = S.certificate_eligible

\* An approved run, and a request with another purpose and another amount
\* whose run on the same data is approved with a different reasoning text.
C29_Witness ==
    /\ pc = "END" /\ state # None
    /\ S.final_decision = Some("APPROVED")
    /\ S.certificate_eligible = Some(TRUE)
    /\ \E r \in Requests :
            /\ r.loan_purpose # S.loan_purpose
            /\ r.loan_amount # S.loan_amount
            /\ OtherRun(r).reasoning # S.reasoning
            /\ OtherRun(r).final_decision = S.final_decision
---------------------------------------------------------------------------
(* Further properties of calculate_loan_risk_score *)

\* Two calls of calculate_loan_risk_score for the same requested amount:
\* overall scores in steps of ten, with and without a sustainable purpose.
PairLoanInputs(loan_amount) ==
    {LoanRiskInput(SustainabilityResult(10 * k, [risk_factors |-> <<>>, positive_factors |-> <<>>]),
                   loan_amount, p) :
        k \in 0..10, p \in {<<>>, <<"S", "o", "l", "a", "r", " ", "P", "u", "m", "p">>}}

LoanPairInit ==
    /\ pc = "Idle"
    /\ state = None
    /\ LANGGRAPH_AVAILABLE \in BOOLEAN
    /\ calls = <<>>
    /\ fetched = NoFetch
    /\ event = None
    /\ response = None
    /\ \E loan_amount \in LoanAmounts :
            requested \in {<<a, b>> : a \in PairLoanInputs(loan_amount),
                                      b \in PairLoanInputs(loan_amount)}
    /\ temporal_data = <<>>
    /\ deforestation_data = <<>>
    /\ sustainability = <<>>
    /\ loan_risk = <<>>

LoanPairNext == CalculateLoanRiskScore

LoanPairSpec == LoanPairInit /\ [][LoanPairNext]_vars

\* C30: of two assessments of the same positive requested amount, the one
\* with the lower (or equal) risk_score never has the smaller
\* max_recommended_amount.
C30_SaferNeverGetsLess ==
    \A i, j \in 1..Len(loan_risk) :
        (/\ requested[i].fn = "calculate_loan_risk_score"
         /\ requested[j].fn = "calculate_loan_risk_score"
         /\ requested[i].loan_amount = requested[j].loan_amount
         /\ requested[i].loan_amount > 0
         /\ loan_risk[i].risk_score <= loan_risk[j].risk_score)
        => loan_risk[i].max_recommended_amount >= loan_risk[j].max_recommended_amount
====
